---------------------------- MODULE Spec2Model ----------------------------
(***************************************************************************)
(* A model of the EPG cacher (src/epg_cacher.py): the merge of a freshly   *)
(* fetched XMLTV document with the previous snapshot, the attachment of    *)
(* images from a second feed, and the update_epg run over the cache files. *)
(*                                                                         *)
(* Times are wall-clock seconds.  A timestamp attribute is a record        *)
(* [fmt, wall, off]: the text format it is written in, the wall-clock      *)
(* fields it spells and the UTC offset it carries.  A channel id is a      *)
(* sequence of characters.  A document is the sequence of the children of  *)
(* its root element.                                                       *)
(***************************************************************************)
EXTENDS Integers, Sequences, FiniteSets, TLC

VARIABLES
    pc,               \* position of the modelled call sequence
    now,              \* datetime.now(): local wall clock, seconds
    new_root,         \* the new (main) document held in memory
    old_root,         \* the old document held in memory
    raised,           \* TRUE when the last operation ended by an exception
    merged_count,     \* the value the last merge_* call returned
    appended,         \* the elements the merge calls logged as merged, in order
    mapping_rows,     \* data rows of channel_mapping.csv
    channel_mapping,  \* EPGCacher.channel_mapping
    epg2_root,        \* the parsed second (image) document
    image_map,        \* result of extract_programme_images: sequence of <<prog_id, images>>
    epg_file,         \* output/epg_unescaped.xml
    epg_old_file,     \* output/epg_old.xml
    epg_file_escaped, \* output/epg.xml
    journal,          \* what the last update_epg run did (its log lines)
    config,           \* the environment: SKIP_CRON and whether EPG2_URL is set
    alive,            \* FALSE once an exception has ended the process
    fetch_cache,      \* the download cache file of the fetch_* scripts
    existing,         \* first argument of the match function called
    element,          \* second argument of the match function called
    dt_arg,           \* argument of _round_time_to_nearest_five, microseconds
    returned,         \* what the last function called returned
    in_flight,        \* number of update_epg calls that have begun and not ended
    next_run,         \* when the scheduled job is due next (schedule's next_run)
    worker            \* the request each gunicorn worker of web_ui.py is handling

vars == <<pc, now, new_root, old_root, raised, merged_count, appended, mapping_rows,
          channel_mapping, epg2_root, image_map, epg_file, epg_old_file,
          epg_file_escaped, journal, config, alive, fetch_cache, existing, element,
          dt_arg, returned, in_flight, next_run, worker>>

\* the variables of the scripts beside epg_cacher.py, of the functions called
\* on their own, and of the scheduler loop
other_vars == <<alive, fetch_cache, existing, element, dt_arg, returned, in_flight,
                next_run, worker>>

-----------------------------------------------------------------------------
(* Program constants *)

\* TIME_TOLERANCE_MINUTES default
time_tolerance_minutes == 10

\* timedelta(minutes=1) and timedelta(days=1), in seconds
SecondsPerMinute == 60
SecondsPerDay == 86400

tolerance == time_tolerance_minutes * SecondsPerMinute

-----------------------------------------------------------------------------
(* Files and configuration *)

\* a file that does not exist, a file holding the XML text of a document,
\* and a file holding text that is not well-formed XML (empty or cut short)
Absent == [exists |-> FALSE, well_formed |-> FALSE, root |-> <<>>]
XmlFile(root) == [exists |-> TRUE, well_formed |-> TRUE, root |-> root]
BrokenFile == [exists |-> TRUE, well_formed |-> FALSE, root |-> <<>>]

\* a cron expression by the times it fires at: every period seconds, phase
\* seconds after midnight
Cron(period, phase) == [period |-> period, phase |-> phase]

\* SKIP_CRON default "* * * * *"
EveryMinute == Cron(SecondsPerMinute, 0)

\* what fetch_epg_data / fetch_epg2_data returned: None or no text; text that
\* is not well-formed XML; the text of a document
FetchFailed == [fetched |-> FALSE, well_formed |-> FALSE, root |-> <<>>]
Malformed == [fetched |-> TRUE, well_formed |-> FALSE, root |-> <<>>]
Xml(root) == [fetched |-> TRUE, well_formed |-> TRUE, root |-> root]

\* the log of a run: how it ended, what the primary feed had to return and
\* which file operation was bound to fail
NoRun == [outcome |-> "none", fetch |-> FetchFailed, fault |-> <<"none", "ok">>]

\* gunicorn.conf.py: workers
gunicorn_workers == 2

Workers == 1..gunicorn_workers

\* a worker that has not taken a request yet
NoRequest == [pc |-> "idle", route |-> "none", epg1_channel |-> <<>>,
         epg2_channel |-> <<>>, mappings |-> <<>>, flash |-> "none", served |-> 0]

\* nothing else is running and no function has been called
NoOther ==
    /\ alive = TRUE /\ fetch_cache = Absent
    /\ existing = <<>> /\ element = <<>> /\ dt_arg = 0 /\ returned = "none"
    /\ in_flight = 0 /\ next_run = 0
    /\ worker = [w \in Workers |-> NoRequest]

-----------------------------------------------------------------------------
(* Timestamps *)

\* The formats parse_datetime tries, in order.
formats == << "%Y%m%d%H%M%S %z", "%Y%m%d%H%M%S", "%Y-%m-%d %H:%M:%S",
              "%Y-%m-%dT%H:%M:%S", "%Y-%m-%dT%H:%M:%SZ" >>

\* A missing or empty attribute, and a text no format matches.
EmptyStr == [fmt |-> "", wall |-> 0, off |-> 0]
JunkStr  == [fmt |-> "junk", wall |-> 0, off |-> 0]

\* The text of wall-clock w with offset o, and of wall-clock w with no offset.
TzStr(w, o) == [fmt |-> formats[1], wall |-> w, off |-> o]
PlainStr(w) == [fmt |-> formats[2], wall |-> w, off |-> 0]
IsoZStr(w)  == [fmt |-> formats[5], wall |-> w, off |-> 0]

\* Python's None for a datetime, and a datetime (aware iff it has a tzinfo).
None == [ok |-> FALSE, aware |-> FALSE, wall |-> 0, off |-> 0]
DateTime(aware, w, o) == [ok |-> TRUE, aware |-> aware, wall |-> w, off |-> o]

\* datetime.strptime(dt_str, fmt): only "%z" yields a tzinfo.
strptime(dt_str, fmt) ==
    IF dt_str.fmt # fmt THEN None
    ELSE IF fmt = formats[1] THEN DateTime(TRUE, dt_str.wall, dt_str.off)
    ELSE DateTime(FALSE, dt_str.wall, 0)

RECURSIVE parse_formats(_, _)
parse_formats(dt_str, i) ==
    IF i > Len(formats) THEN None
    ELSE IF strptime(dt_str, formats[i]).ok THEN strptime(dt_str, formats[i])
    ELSE parse_formats(dt_str, i + 1)

parse_datetime(dt_str) ==
    IF dt_str.fmt = "" THEN None ELSE parse_formats(dt_str, 1)

\* dt.replace(tzinfo=None) if dt.tzinfo else dt
naive(dt) == DateTime(FALSE, dt.wall, 0)

\* dt + timedelta(seconds=d)
plus(dt, d) == [dt EXCEPT !.wall = @ + d]

\* a <= b on datetimes: "raise" (TypeError) when exactly one is aware,
\* the order of the instants when both are, of the wall clocks when neither is.
instant(dt) == IF dt.aware THEN dt.wall - dt.off ELSE dt.wall
le(a, b) ==
    IF a.aware # b.aware THEN "raise"
    ELSE IF instant(a) <= instant(b) THEN "true" ELSE "false"

-----------------------------------------------------------------------------
(* Elements and documents *)

Channel(id) ==
    [tag |-> "channel", id |-> id, channel |-> <<>>,
     start |-> EmptyStr, stop |-> EmptyStr, icons |-> <<>>]

Programme(channel, start, stop, icons) ==
    [tag |-> "programme", id |-> <<>>, channel |-> channel,
     start |-> start, stop |-> stop, icons |-> icons]

\* root.findall('.//tag')
findall(root, tag) == SelectSeq(root, LAMBDA e : e.tag = tag)

RECURSIVE SeqToSet(_)
SeqToSet(s) == IF s = <<>> THEN {} ELSE {Head(s)} \cup SeqToSet(Tail(s))

get_programme_time_range(programme) ==
    <<parse_datetime(programme.start), parse_datetime(programme.stop)>>

\* programmes_overlap with the tolerance left out of both comparisons
programmes_overlap_no_tolerance(prog1, prog2) ==
    LET r1 == get_programme_time_range(prog1)
        r2 == get_programme_time_range(prog2)
    IN  IF ~(r1[1].ok /\ r1[2].ok /\ r2[1].ok /\ r2[2].ok) THEN "false"
        ELSE IF le(r1[1], r2[2]) # "true" THEN le(r1[1], r2[2])
        ELSE le(r2[1], r1[2])

\* programmes_overlap: "true", "false", or "raise" when a comparison raises.
programmes_overlap(prog1, prog2) ==
    LET r1 == get_programme_time_range(prog1)
        r2 == get_programme_time_range(prog2)
        start1 == r1[1]  stop1 == r1[2]
        start2 == r2[1]  stop2 == r2[2]
    IN  IF ~(start1.ok /\ stop1.ok /\ start2.ok /\ stop2.ok) THEN "false"
        ELSE LET first == le(start1, plus(stop2, tolerance))
                 second == le(start2, plus(stop1, tolerance))
             IN  IF first # "true" THEN first ELSE second

-----------------------------------------------------------------------------
(* merge_missing_channels *)

\* the set new_channel_ids: the non-empty ids of the new document's channels
new_channel_ids(root) ==
    {e.id : e \in {c \in SeqToSet(findall(root, "channel")) : c.id # <<>>}}

\* missing_channels with the membership test inverted
missing_channels_inverted(new, old) ==
    SelectSeq(findall(old, "channel"),
              LAMBDA c : c.id # <<>> /\ c.id \in new_channel_ids(new))

\* the old channels the loop appends, in document order
missing_channels(new, old) ==
    SelectSeq(findall(old, "channel"),
              LAMBDA c : c.id # <<>> /\ c.id \notin new_channel_ids(new))

\* a merge that puts the missing channels in front of the new document
merge_missing_channels_in_front(new, old) ==
    [root |-> missing_channels(new, old) \o new,
     merged |-> missing_channels(new, old),
     count |-> Len(missing_channels(new, old)),
     raised |-> FALSE]

\* merge_missing_channels(new_root, old_root): the new root afterwards and
\* the returned count
merge_missing_channels(new, old) ==
    [root |-> new \o missing_channels(new, old),
     merged |-> missing_channels(new, old),
     count |-> Len(missing_channels(new, old)),
     raised |-> FALSE]

-----------------------------------------------------------------------------
(* merge_missing_programmes *)

\* keys of a *_programmes_by_channel dict, in insertion order
RECURSIVE channel_keys(_, _)
channel_keys(progs, seen) ==
    IF progs = <<>> THEN <<>>
    ELSE IF Head(progs).channel \in seen THEN channel_keys(Tail(progs), seen)
    ELSE <<Head(progs).channel>>
         \o channel_keys(Tail(progs), seen \cup {Head(progs).channel})

\* programmes_by_channel.get(channel, [])
by_channel(root, channel) ==
    SelectSeq(findall(root, "programme"), LAMBDA p : p.channel = channel)

\* the old programmes in the order the two nested loops visit them
RECURSIVE visit_order(_, _)
visit_order(old, keys) ==
    IF keys = <<>> THEN <<>>
    ELSE by_channel(old, Head(keys)) \o visit_order(old, Tail(keys))

\* a staleness test that also skips a programme whose start does not parse
is_stale_or_unparsed(old_programme, t) ==
    LET start_time == get_programme_time_range(old_programme)[1]
    IN  ~start_time.ok \/ naive(start_time).wall < t - SecondsPerDay

\* the staleness test of the loop body: it reads the start time only
is_stale(old_programme, t) ==
    LET start_time == get_programme_time_range(old_programme)[1]
    IN  start_time.ok /\ naive(start_time).wall < t - SecondsPerDay

\* any_overlap that looks at the first new programme only
any_overlap_first_only(old_programme, new_programmes) ==
    IF new_programmes = <<>> THEN "false"
    ELSE programmes_overlap(old_programme, Head(new_programmes))

\* the inner loop over new_programmes: "true" when one overlaps (break),
\* "raise" when a comparison raises first, "false" when none overlaps
RECURSIVE any_overlap(_, _)
any_overlap(old_programme, new_programmes) ==
    IF new_programmes = <<>> THEN "false"
    ELSE LET r == programmes_overlap(old_programme, Head(new_programmes))
         IN  IF r = "false" THEN any_overlap(old_programme, Tail(new_programmes))
             ELSE r

\* the outer loops over the old programmes still to visit; acc is what has
\* been appended so far
RECURSIVE merge_loop(_, _, _, _)
merge_loop(todo, new, t, acc) ==
    IF todo = <<>> THEN [merged |-> acc, raised |-> FALSE]
    ELSE LET old_programme == Head(todo)
         IN  IF is_stale(old_programme, t)
             THEN merge_loop(Tail(todo), new, t, acc)
             ELSE LET r == any_overlap(old_programme,
                                       by_channel(new, old_programme.channel))
                  IN  IF r = "raise" THEN [merged |-> acc, raised |-> TRUE]
                      ELSE IF r = "true" THEN merge_loop(Tail(todo), new, t, acc)
                      ELSE merge_loop(Tail(todo), new, t, Append(acc, old_programme))

\* merge_missing_programmes(new_root, old_root) run at wall-clock time t
merge_missing_programmes(new, old, t) ==
    LET todo == visit_order(old, channel_keys(findall(old, "programme"), {}))
        r == merge_loop(todo, new, t, <<>>)
    IN  [root |-> new \o r.merged,
         merged |-> r.merged,
         count |-> IF r.raised THEN 0 ELSE Len(r.merged),
         raised |-> r.raised]

-----------------------------------------------------------------------------
(* Dictionaries: sequences of <<key, value>> in insertion order *)

Keys(d) == { d[i][1] : i \in DOMAIN d }

\* d[k] = v: a new key goes last, a known key keeps its place
RECURSIVE dict_set(_, _, _)
dict_set(d, k, v) ==
    IF d = <<>> THEN << <<k, v>> >>
    ELSE IF Head(d)[1] = k THEN << <<k, v>> >> \o Tail(d)
    ELSE <<Head(d)>> \o dict_set(Tail(d), k, v)

-----------------------------------------------------------------------------
(* load_channel_mapping *)

\* str.strip() on a sequence of characters
RECURSIVE lstrip(_)
lstrip(str) ==
    IF str # <<>> /\ Head(str) = " " THEN lstrip(Tail(str)) ELSE str

RECURSIVE rstrip(_)
rstrip(str) ==
    IF str # <<>> /\ str[Len(str)] = " "
    THEN rstrip(SubSeq(str, 1, Len(str) - 1)) ELSE str

strip(str) == rstrip(lstrip(str))

\* the loop over the data rows of channel_mapping.csv
RECURSIVE load_rows(_, _)
load_rows(rows, mapping) ==
    IF rows = <<>> THEN mapping
    ELSE LET row == Head(rows)
         IN  IF Len(row) >= 2 /\ strip(row[1]) # <<>> /\ strip(row[2]) # <<>>
             THEN load_rows(Tail(rows), dict_set(mapping, strip(row[1]), strip(row[2])))
             ELSE load_rows(Tail(rows), mapping)

load_channel_mapping(rows) == load_rows(rows, <<>>)

-----------------------------------------------------------------------------
(* extract_programme_images *)

\* an <icon> child
Icon(src, width, height) == [src |-> src, width |-> width, height |-> height]

\* f"{channel}_{start}": the characters of the channel id and a "_",
\* followed by the text of the start attribute
ProgId(channel, start) == [chars |-> channel \o <<"_">>, rest |-> start]

\* the src of every icon that has one
RECURSIVE icon_srcs(_)
icon_srcs(icons) ==
    IF icons = <<>> THEN <<>>
    ELSE (IF Head(icons).src # "" THEN <<Head(icons).src>> ELSE <<>>)
         \o icon_srcs(Tail(icons))

\* the loop over the programmes of the second document (the modelled feeds
\* carry their images in icon children)
RECURSIVE extract_loop(_, _)
extract_loop(programmes, map) ==
    IF programmes = <<>> THEN map
    ELSE LET programme == Head(programmes)
             images == icon_srcs(programme.icons)
         IN  IF programme.channel # <<>> /\ programme.start.fmt # "" /\ images # <<>>
             THEN extract_loop(Tail(programmes),
                               dict_set(map, ProgId(programme.channel, programme.start), images))
             ELSE extract_loop(Tail(programmes), map)

extract_programme_images(root) == extract_loop(findall(root, "programme"), <<>>)

-----------------------------------------------------------------------------
(* merge_programme_images *)

\* prog_id.startswith(f"{epg2_channel}_"): the text of a timestamp holds no "_"
startswith(prog_id, epg2_channel) ==
    LET prefix == epg2_channel \o <<"_">>
    IN  /\ Len(prefix) <= Len(prog_id.chars)
        /\ SubSeq(prog_id.chars, 1, Len(prefix)) = prefix

\* the index of the first "_" of a sequence of characters, 0 if none
RECURSIVE find_underscore(_, _)
find_underscore(chars, i) ==
    IF i > Len(chars) THEN 0
    ELSE IF chars[i] = "_" THEN i
    ELSE find_underscore(chars, i + 1)

\* prog_id.split('_', 1)[1]: what follows the first "_"
split_rest(prog_id) ==
    LET i == find_underscore(prog_id.chars, 1)
    IN  [chars |-> SubSeq(prog_id.chars, i + 1, Len(prog_id.chars)),
         rest |-> prog_id.rest]

\* parse_datetime on such a text: characters in front of the timestamp
\* match no format
parse_text(text) ==
    IF text.chars # <<>> THEN None ELSE parse_datetime(text.rest)

abs(x) == IF x < 0 THEN -x ELSE x

\* the search through image_map.items(): the images of the first entry of
\* the mapped channel within the tolerance, <<>> (None) when there is none
RECURSIVE find_images(_, _, _)
find_images(items, epg2_channel, epg1_start_time) ==
    IF items = <<>> THEN <<>>
    ELSE LET prog_id == Head(items)[1]
             epg2_start_time == parse_text(split_rest(prog_id))
         IN  IF /\ startswith(prog_id, epg2_channel)
                /\ epg2_start_time.ok
                /\ abs(naive(epg1_start_time).wall - naive(epg2_start_time).wall)
                      <= tolerance
             THEN Head(items)[2]
             ELSE find_images(Tail(items), epg2_channel, epg1_start_time)

\* the icons added for the matched images: width and height on the first
RECURSIVE new_icons(_, _)
new_icons(images, i) ==
    IF i > Len(images) THEN <<>>
    ELSE <<IF i = 1 THEN Icon(images[i], "300", "200")
                    ELSE Icon(images[i], "", "")>>
         \o new_icons(images, i + 1)

\* enrich that adds the new icons without removing the existing ones
enrich_keep_existing(programme, epg2_channel, map) ==
    LET epg1_start_time == parse_datetime(programme.start)
        matched_images == IF epg1_start_time.ok
                          THEN find_images(map, epg2_channel, epg1_start_time)
                          ELSE <<>>
    IN  IF matched_images # <<>>
        THEN [programme EXCEPT !.icons = @ \o new_icons(matched_images, 1)]
        ELSE programme

\* what the loop body does to one programme of the mapped channel
enrich(programme, epg2_channel, map) ==
    LET epg1_start_time == parse_datetime(programme.start)
        matched_images == IF epg1_start_time.ok
                          THEN find_images(map, epg2_channel, epg1_start_time)
                          ELSE <<>>
    IN  IF matched_images # <<>>
        THEN [programme EXCEPT !.icons = new_icons(matched_images, 1)]
        ELSE programme

\* a selection that takes the programmes of every channel
selected_any_channel(e, epg1_channel) == e.tag = "programme"

\* the XPath predicate [@channel='...'] is well formed: ElementTree raises
\* SyntaxError("invalid predicate") when the id holds an apostrophe
valid_predicate(epg1_channel) ==
    \A i \in DOMAIN epg1_channel : epg1_channel[i] # "'"

\* the loop over channel_mapping.items() reaches findall with this item and
\* findall raises
findall_raises(item) == item[2] # <<>> /\ ~valid_predicate(item[1])

\* main_root.findall(f".//programme[@channel='{epg1_channel}']")
selected(e, epg1_channel) == e.tag = "programme" /\ e.channel = epg1_channel

\* one iteration of the loop over channel_mapping.items()
merge_one_mapping(root, epg1_channel, epg2_channel, map) ==
    IF epg2_channel = <<>> THEN root
    ELSE [i \in DOMAIN root |->
            IF selected(root[i], epg1_channel)
            THEN enrich(root[i], epg2_channel, map) ELSE root[i]]

RECURSIVE merge_mappings(_, _, _)
merge_mappings(root, items, map) ==
    IF items = <<>> THEN root
    ELSE IF findall_raises(Head(items)) THEN root
    ELSE merge_mappings(merge_one_mapping(root, Head(items)[1], Head(items)[2], map),
                        Tail(items), map)

\* a test that takes every programme of a mapped channel for matched
matched_whatever(programme, epg2_channel, map) == TRUE

\* "if matched_images:" for one programme of the mapped channel
matched(programme, epg2_channel, map) ==
    /\ parse_datetime(programme.start).ok
    /\ find_images(map, epg2_channel, parse_datetime(programme.start)) # <<>>

\* how often one iteration of the loop over channel_mapping.items() executes
\* merged_count += 1
count_one_mapping(root, epg1_channel, epg2_channel, map) ==
    IF epg2_channel = <<>> THEN 0
    ELSE Cardinality({ i \in DOMAIN root :
                         /\ selected(root[i], epg1_channel)
                         /\ matched(root[i], epg2_channel, map) })

\* merged_count when the loop over channel_mapping.items() ends
RECURSIVE count_mappings(_, _, _)
count_mappings(root, items, map) ==
    IF items = <<>> THEN 0
    ELSE IF findall_raises(Head(items)) THEN 0
    ELSE count_one_mapping(root, Head(items)[1], Head(items)[2], map)
         + count_mappings(merge_one_mapping(root, Head(items)[1], Head(items)[2], map),
                          Tail(items), map)

\* merge_programme_images(main_root, image_map) with self.channel_mapping:
\* the root afterwards, the returned count, and whether the call ended by an
\* exception instead of returning
merge_programme_images(root, map, mapping) ==
    [root |-> merge_mappings(root, mapping, map),
     count |-> count_mappings(root, mapping, map),
     raised |-> \E j \in DOMAIN mapping : findall_raises(mapping[j])]

-----------------------------------------------------------------------------
(* is_now_in_cron *)

grace_period == 60

\* croniter(cron_expr, base).get_next(): the first fire time after base
get_next(cron_expr, base) ==
    base + (cron_expr.period - ((base - cron_expr.phase) % cron_expr.period))

\* a test that never finds the time in the schedule
never_in_cron(cron_expr, t) == FALSE

\* is_now_in_cron(cron_expr) called at wall-clock time t
is_now_in_cron(cron_expr, t) ==
    LET base == t - grace_period
        prev_time == get_next(cron_expr, base)
    IN  abs(prev_time - t) <= grace_period

-----------------------------------------------------------------------------
(* Files: backup, parse, save *)

\* a backup that keeps the first snapshot it ever took
backup_first_only(current, old, copy) ==
    [ok |-> TRUE, old |-> IF old.exists \/ ~current.exists THEN old ELSE current]

\* backup_current_epg(): copy epg_unescaped.xml over epg_old.xml when it
\* exists; copy is how shutil.copy2 ended ("ok", "error" before the target
\* was opened, "partial" after it was truncated)
backup_current_epg(current, old, copy) ==
    IF ~current.exists THEN [ok |-> TRUE, old |-> old]
    ELSE IF copy = "ok" THEN [ok |-> TRUE, old |-> current]
    ELSE IF copy = "partial" THEN [ok |-> FALSE, old |-> BrokenFile]
    ELSE [ok |-> FALSE, old |-> old]

\* parse_epg_xml that takes any text for a document
parse_epg_xml_lenient(content) == [ok |-> TRUE, root |-> content.root]

\* parse_epg_xml(xml_content): the root, or None
parse_epg_xml(content) ==
    IF content.well_formed THEN [ok |-> TRUE, root |-> content.root]
    ELSE [ok |-> FALSE, root |-> <<>>]

\* save_epg_file(root): the file afterwards and the returned flag
save_epg_file(file, root, write) ==
    IF write = "ok" THEN [ok |-> TRUE, file |-> XmlFile(root)]
    ELSE IF write = "partial" THEN [ok |-> FALSE, file |-> BrokenFile]
    ELSE [ok |-> FALSE, file |-> file]

-----------------------------------------------------------------------------
(* plex_safe_channel_id and save_escaped_epg_file *)

Upper == <<"A", "B", "C", "D", "E", "F", "G", "H", "I", "J", "K", "L", "M",
           "N", "O", "P", "Q", "R", "S", "T", "U", "V", "W", "X", "Y", "Z">>
Lower == <<"a", "b", "c", "d", "e", "f", "g", "h", "i", "j", "k", "l", "m",
           "n", "o", "p", "q", "r", "s", "t", "u", "v", "w", "x", "y", "z">>
Digits == {"0", "1", "2", "3", "4", "5", "6", "7", "8", "9"}

\* percent escapes urllib.parse.unquote decodes, as <<two hex digits, character>>
Escapes == { <<<<"2", "0">>, " ">>, <<<<"2", "F">>, "/">>, <<<<"4", "1">>, "A">> }

\* letters with a diacritic (each one character, written by its name), as
\* <<letter, base letter>> (NFKD, combining marks dropped)
Diacritics == { <<"c-caron", "c">>, <<"s-caron", "s">>, <<"C-caron", "C">> }

RECURSIVE unquote(_)
unquote(raw) ==
    IF raw = <<>> THEN <<>>
    ELSE IF /\ raw[1] = "%" /\ Len(raw) >= 3
            /\ \E e \in Escapes : e[1] = SubSeq(raw, 2, 3)
         THEN <<(CHOOSE e \in Escapes : e[1] = SubSeq(raw, 2, 3))[2]>>
                  \o unquote(SubSeq(raw, 4, Len(raw)))
         ELSE <<raw[1]>> \o unquote(Tail(raw))

no_diacritic(c) ==
    IF \E d \in Diacritics : d[1] = c
    THEN (CHOOSE d \in Diacritics : d[1] = c)[2]
    ELSE c

safe_char(c) ==
    \/ \E i \in DOMAIN Upper : c = Upper[i] \/ c = Lower[i]
    \/ c \in Digits \cup {".", "_", "-"}

lower(c) ==
    IF \E i \in DOMAIN Upper : c = Upper[i]
    THEN Lower[CHOOSE i \in DOMAIN Upper : c = Upper[i]]
    ELSE c

plex_safe_channel_id(raw_id) ==
    LET decoded == unquote(raw_id)
        no_diacritics == [i \in DOMAIN decoded |-> no_diacritic(decoded[i])]
        no_spaces == SelectSeq(no_diacritics, LAMBDA c : c # " ")
        safe == SelectSeq(no_spaces, safe_char)
    IN  [i \in DOMAIN safe |-> lower(safe[i])]

\* the document with every non-empty channel id and channel reference escaped
escaped(root) ==
    [i \in DOMAIN root |->
        IF root[i].tag = "channel" /\ root[i].id # <<>>
        THEN [root[i] EXCEPT !.id = plex_safe_channel_id(root[i].id)]
        ELSE IF root[i].tag = "programme" /\ root[i].channel # <<>>
        THEN [root[i] EXCEPT !.channel = plex_safe_channel_id(root[i].channel)]
        ELSE root[i]]

\* save_escaped_epg_file(): read epg_unescaped.xml from disk, escape, write
\* epg.xml
save_escaped_epg_file(source, file, write) ==
    IF ~(source.exists /\ source.well_formed) THEN [ok |-> FALSE, file |-> file]
    ELSE IF write = "ok" THEN [ok |-> TRUE, file |-> XmlFile(escaped(source.root))]
    ELSE IF write = "partial" THEN [ok |-> FALSE, file |-> BrokenFile]
    ELSE [ok |-> FALSE, file |-> file]

-----------------------------------------------------------------------------
(* Bounds and input domains *)

\* the most elements the old and the new document hold together (SpecMerge)
MaxElements == 3

\* the most elements of the document merged with its own copy (SpecSelf)
MaxDoc == 2

\* channel ids: "5", "7" and the empty id
Id5 == <<"5">>
Id7 == <<"7">>
NoId == <<>>

\* the wall clock of the merge, and the staleness threshold one day before
Now0 == 3 * SecondsPerDay
DayAgo == Now0 - SecondsPerDay
Hour == 60 * SecondsPerMinute

\* <<start, stop>> attribute pairs: around the staleness threshold, around
\* the tolerance, unparsable, and without a timezone
Slots ==
    { <<TzStr(DayAgo - 2 * Hour, 0), TzStr(DayAgo - Hour, 0)>>,     \* ended over a day ago
      <<TzStr(DayAgo - 1, 0), TzStr(DayAgo + Hour, 0)>>,            \* started over a day ago, ended later
      <<TzStr(DayAgo + 2 * Hour, 0), TzStr(DayAgo + 3 * Hour, 0)>>,
      <<TzStr(DayAgo + 3 * Hour + tolerance, 0), TzStr(DayAgo + 4 * Hour, 0)>>,
      <<TzStr(DayAgo + 3 * Hour + tolerance + 1, 0), TzStr(DayAgo + 4 * Hour, 0)>>,
      <<TzStr(DayAgo + 4 * Hour, 2 * Hour), TzStr(DayAgo + 5 * Hour, 2 * Hour)>>,  \* offset +0200
      <<EmptyStr, TzStr(DayAgo - Hour, 0)>>,
      <<TzStr(DayAgo + 2 * Hour, 0), JunkStr>>,
      <<PlainStr(DayAgo + 2 * Hour), PlainStr(DayAgo + 3 * Hour)>> }

\* a fresh programme whose channel attribute is empty
Unassigned ==
    Programme(NoId, TzStr(DayAgo + 2 * Hour, 0), TzStr(DayAgo + 3 * Hour, 0), <<>>)

ProgrammePool ==
    { Programme(c, s[1], s[2], <<>>) : c \in {Id5, Id7}, s \in Slots }
    \cup { Unassigned }

ChannelPool == { Channel(i) : i \in {Id5, Id7, NoId} }

ElementPool == ChannelPool \cup ProgrammePool

\* the sequences over S of length at most n
SeqsUpTo(S, n) == UNION { [1..k -> S] : k \in 0..n }

-----------------------------------------------------------------------------
(* The merge of step 4 of update_epg, applied to parsed documents *)

Idle ==
    /\ mapping_rows = <<>> /\ channel_mapping = <<>>
    /\ epg2_root = <<>> /\ image_map = <<>>
    /\ epg_file = Absent /\ epg_old_file = Absent
    /\ epg_file_escaped = Absent /\ journal = NoRun
    /\ config = [skip_cron |-> EveryMinute, epg2_url |-> FALSE]
    /\ NoOther

InitMerge ==
    /\ pc = "parsed"
    /\ now = Now0
    /\ \E n \in 0..MaxElements :
          /\ new_root \in SeqsUpTo(ElementPool, n)
          /\ old_root \in SeqsUpTo(ElementPool, MaxElements - n)
    /\ raised = FALSE
    /\ merged_count = 0
    /\ appended = <<>>
    /\ Idle

\* merged_channels = self.merge_missing_channels(new_root, old_root)
MergeMissingChannels ==
    /\ pc = "parsed"
    /\ LET r == merge_missing_channels(new_root, old_root)
       IN  /\ new_root' = r.root
           /\ appended' = r.merged
           /\ merged_count' = r.count
           /\ raised' = r.raised
    /\ pc' = "channels"
    /\ UNCHANGED <<now, old_root, mapping_rows, channel_mapping, epg2_root,
                   image_map, epg_file, epg_old_file, epg_file_escaped, journal,
                   config, other_vars>>

\* merged_programmes = self.merge_missing_programmes(new_root, old_root)
MergeMissingProgrammes ==
    /\ pc = "channels"
    /\ LET r == merge_missing_programmes(new_root, old_root, now)
       IN  /\ new_root' = r.root
           /\ appended' = r.merged
           /\ merged_count' = r.count
           /\ raised' = r.raised
    /\ pc' = "programmes"
    /\ UNCHANGED <<now, old_root, mapping_rows, channel_mapping, epg2_root,
                   image_map, epg_file, epg_old_file, epg_file_escaped, journal,
                   config, other_vars>>

NextMerge == MergeMissingChannels \/ MergeMissingProgrammes

SpecMerge == InitMerge /\ [][NextMerge]_vars

\* a document merged with an identical copy of itself as the old document;
\* its programmes may also run backwards (stop over the tolerance before start)
BackwardSlot == <<TzStr(DayAgo + 3 * Hour, 0), TzStr(DayAgo + 2 * Hour, 0)>>

SelfPool ==
    ElementPool
    \cup { Programme(c, BackwardSlot[1], BackwardSlot[2], <<>>) : c \in {Id5, Id7} }

InitSelf ==
    /\ pc = "parsed"
    /\ now = Now0
    /\ new_root \in SeqsUpTo(SelfPool, MaxDoc)
    /\ old_root = new_root
    /\ raised = FALSE
    /\ merged_count = 0
    /\ appended = <<>>
    /\ Idle

SpecSelf == InitSelf /\ [][NextMerge]_vars

-----------------------------------------------------------------------------
(* Vocabulary of the properties *)

Count(seq, x) == Len(SelectSeq(seq, LAMBDA e : e = x))

Ids(root) == { e.id : e \in SeqToSet(findall(root, "channel")) }

CountId(root, id) == Len(SelectSeq(findall(root, "channel"), LAMBDA c : c.id = id))

\* the new document as it was before the last merge call appended to it
Before == SubSeq(new_root, 1, Len(new_root) - Len(appended))

Parses(p) == parse_datetime(p.start).ok /\ parse_datetime(p.stop).ok

\* the value a parsed time is compared by: the instant when it carries a
\* timezone, the wall clock when it carries none
Value(dt_str) == instant(parse_datetime(dt_str))

\* o.start <= n.stop + T and o.stop + T >= n.start, on parsed values
WithinTolerance(o, n) ==
    /\ Parses(o) /\ Parses(n)
    /\ Value(o.start) <= Value(n.stop) + tolerance
    /\ Value(o.stop) + tolerance >= Value(n.start)

\* "stale" as the specification defines it: the stop parses and lies strictly
\* more than one day before now
StaleByStop(p) ==
    parse_datetime(p.stop).ok /\ parse_datetime(p.stop).wall < now - SecondsPerDay

-----------------------------------------------------------------------------
(* C1 *)

\* C1: after merge_missing_programmes, for every old programme o and every
\* new programme n of the same channel whose four times parse and lie within
\* the tolerance of each other, o was not appended (the merged document holds
\* no more copies of o than the new document did) and n is still there.
C1_OverlappedOldNotAppended ==
    pc = "programmes" =>
        \A o \in SeqToSet(findall(old_root, "programme")) :
        \A n \in SeqToSet(findall(Before, "programme")) :
            (o.channel = n.channel /\ WithinTolerance(o, n))
                => /\ o \notin SeqToSet(appended)
                   /\ Count(new_root, o) = Count(Before, o)
                   /\ Count(new_root, n) >= 1

\* C1 witness: a fresh old programme that only the tolerance makes overlap a
\* different new programme of its channel was left out, and the merge ran on.
C1_Witness ==
    /\ pc = "programmes" /\ ~raised
    /\ \E o \in SeqToSet(findall(old_root, "programme")) :
       \E n \in SeqToSet(findall(Before, "programme")) :
          /\ o.channel = n.channel /\ o # n
          /\ WithinTolerance(o, n)
          /\ Value(o.start) = Value(n.stop) + tolerance
          /\ ~is_stale(o, now)
          /\ Count(new_root, o) = 0

-----------------------------------------------------------------------------
(* C2 *)

\* C2 as claimed: after merge_missing_channels, every channel id on a Channel
\* of the old document and on no Channel of the new document is on exactly
\* one Channel of the merged document, for any old and new documents (read
\* for the ids that are not empty).
C2_ExactlyOnceAnyDocuments ==
    pc = "channels" =>
        \A id \in (Ids(old_root) \ Ids(Before)) \ {NoId} :
            CountId(new_root, id) = 1

\* C2 amended: after merge_missing_channels, every non-empty channel id on a
\* Channel of the old document and on no Channel of the new document is on
\* as many Channels of the merged document as of the old document: exactly
\* one when the old document carries it once, never zero.
C2_OncePerOldChannel ==
    pc = "channels" =>
        \A id \in (Ids(old_root) \ Ids(Before)) \ {NoId} :
            /\ CountId(new_root, id) = CountId(old_root, id)
            /\ CountId(new_root, id) >= 1

\* C2 witness: an id the old document carries once and the new document does
\* not carry has been appended once.
C2_Witness ==
    /\ pc = "channels"
    /\ \E id \in (Ids(old_root) \ Ids(Before)) \ {NoId} :
          CountId(old_root, id) = 1 /\ CountId(new_root, id) = 1
    /\ Ids(Before) # {}

-----------------------------------------------------------------------------
(* C3 *)

\* C3 as claimed: merge_missing_programmes never appends an old programme
\* whose stop parses to a time strictly earlier than now - 1 day, whatever its
\* start attribute is.
C3_StaleStopNeverAppended ==
    pc = "programmes" =>
        \A o \in SeqToSet(appended) : ~StaleByStop(o)

-----------------------------------------------------------------------------
(* C4 *)

\* C4 as claimed: when merge_missing_programmes has run to its end, every old
\* programme whose stop is not strictly earlier than now - 1 day and that is
\* within tolerance of no new programme of its channel is in the merged
\* document.
C4_FreshUnmatchedCarried ==
    (pc = "programmes" /\ ~raised) =>
        \A o \in SeqToSet(findall(old_root, "programme")) :
            ( /\ ~StaleByStop(o)
              /\ \A n \in SeqToSet(by_channel(Before, o.channel)) :
                     ~WithinTolerance(o, n) )
                => o \in SeqToSet(new_root)

-----------------------------------------------------------------------------
(* C5 *)

\* C5 as claimed: merging a document with an identical copy of itself as the
\* old document appends nothing, so the result has the same elements in the
\* same number, also with missing or unparsable start/stop.
C5_SelfMergeAppendsNothing ==
    pc \in {"channels", "programmes"} =>
        appended = <<>> /\ new_root = old_root

\* start lies more than the tolerance after stop
RunsBackwards(p) ==
    Parses(p) /\ Value(p.start) > Value(p.stop) + tolerance

\* C5 amended: merging a document with an identical copy of itself appends no
\* Channel, and appends a programme only if its start or stop is missing or
\* unparsable or its start lies more than the tolerance after its stop; the
\* result has the same set of Channel and Programme identities as the
\* document, though such programmes can be in it twice.
C5_SelfMergeDuplicatesOnlyUnmatchable ==
    pc \in {"channels", "programmes"} =>
        /\ pc = "channels" => appended = <<>>
        /\ \A e \in SeqToSet(appended) :
              /\ e.tag = "programme"
              /\ ~Parses(e) \/ RunsBackwards(e)
        /\ \A e \in SeqToSet(old_root) :
              (e.tag = "channel" \/ (Parses(e) /\ ~RunsBackwards(e)))
                 => Count(new_root, e) = Count(old_root, e)
        /\ SeqToSet(new_root) = SeqToSet(old_root)

\* C5 witness: a self-merge that ran to its end over a document with a
\* channel, a programme with parsed times that was not stale and was left
\* out, and a programme with an unparsable time that was appended again.
C5_Witness ==
    /\ pc = "programmes" /\ ~raised
    /\ \E e \in SeqToSet(old_root) :
          Parses(e) /\ ~is_stale(e, now) /\ Count(new_root, e) = Count(old_root, e)
    /\ \E e \in SeqToSet(appended) : ~Parses(e)

-----------------------------------------------------------------------------
(* Step 5 of update_epg: the images of the second feed *)

\* the most data rows of channel_mapping.csv, and the most programmes the
\* main and the second document hold together
MaxRows == 1
MaxImageElements == 3

\* channel ids of the second feed: "n" and "n_u"
SecN == <<"n">>
SecNU == <<"n", "_", "u">>

\* data rows of channel_mapping.csv
RowPool == { <<Id5, SecN>>, <<Id5, SecNU>>, <<Id7, NoId>> }

\* the start of the programmes of the main document
Start0 == DayAgo + 2 * Hour

MainPool ==
    { Programme(c, s, Start0Stop, i) :
        c \in {Id5, Id7},
        s \in {TzStr(Start0, 0), EmptyStr},
        Start0Stop \in {TzStr(Start0 + Hour, 0)},
        i \in {<<>>, <<Icon("old", "", "")>>} }

\* programmes of the second document: at the tolerance and one second
\* past it, with two images or with one image and an icon without src
Epg2Pool ==
    { Programme(c, s, EmptyStr, i) :
        c \in {SecN, SecNU},
        s \in {TzStr(Start0 + tolerance, 0), TzStr(Start0 + tolerance + 1, 0)},
        i \in { <<Icon("u1", "", ""), Icon("u2", "", "")>>,
                <<Icon("", "", ""), Icon("u2", "", "")>> } }

InitImages ==
    /\ pc = "epg2_parsed"
    /\ now = Now0
    /\ mapping_rows \in SeqsUpTo(RowPool, MaxRows)
    /\ channel_mapping = load_channel_mapping(mapping_rows)
    /\ \E n \in 0..MaxImageElements :
          /\ new_root \in SeqsUpTo(MainPool, n)
          /\ epg2_root \in SeqsUpTo(Epg2Pool, MaxImageElements - n)
    /\ old_root = <<>>
    /\ raised = FALSE
    /\ merged_count = 0
    /\ appended = <<>>
    /\ image_map = <<>>
    /\ epg_file = Absent /\ epg_old_file = Absent
    /\ epg_file_escaped = Absent /\ journal = NoRun
    /\ config = [skip_cron |-> EveryMinute, epg2_url |-> TRUE]
    /\ NoOther

\* image_map = self.extract_programme_images(epg2_root)
ExtractProgrammeImages ==
    /\ pc = "epg2_parsed"
    /\ image_map' = extract_programme_images(epg2_root)
    /\ pc' = "extracted"
    /\ UNCHANGED <<now, new_root, old_root, raised, merged_count, appended,
                   mapping_rows, channel_mapping, epg2_root, epg_file,
                   epg_old_file, epg_file_escaped, journal, config, other_vars>>

\* merged_images = self.merge_programme_images(new_root, image_map)
MergeProgrammeImages ==
    /\ pc = "extracted"
    /\ LET r == merge_programme_images(new_root, image_map, channel_mapping)
       IN  /\ new_root' = r.root
           /\ merged_count' = r.count
           /\ raised' = r.raised
    /\ pc' = "images"
    /\ UNCHANGED <<now, old_root, appended, mapping_rows,
                   channel_mapping, epg2_root, image_map, epg_file,
                   epg_old_file, epg_file_escaped, journal, config, other_vars>>

NextImages == ExtractProgrammeImages \/ MergeProgrammeImages

SpecImages == InitImages /\ [][NextImages]_vars

-----------------------------------------------------------------------------
(* C7 *)

\* the call of merge_programme_images
ImagesStep == pc = "extracted" /\ pc' = "images"

\* the channel is no key of the mapping, or is mapped to an empty id
NotMapped(channel) ==
    \A j \in DOMAIN channel_mapping :
        channel_mapping[j][1] = channel => channel_mapping[j][2] = <<>>

EntryWithin(k, s, p) ==
    /\ image_map[k][1].chars = s \o <<"_">>
    /\ parse_datetime(image_map[k][1].rest).ok
    /\ parse_datetime(p.start).ok
    /\ abs(parse_datetime(p.start).wall - parse_datetime(image_map[k][1].rest).wall)
          <= tolerance

-----------------------------------------------------------------------------
(* C8 *)

Srcs(icons) == [n \in DOMAIN icons |-> icons[n].src]

\* C8 as claimed: for every mapping pair (p, s) with s non-empty, whatever
\* characters s holds, and every programme of channel p with a parseable
\* start, if the image index holds an entry of channel s whose start parses
\* within the tolerance, merge_programme_images attaches the images of such
\* an entry to the programme.
C8_ImagesAttachedWithinTolerance ==
    [][ ImagesStep =>
          \A j \in DOMAIN channel_mapping : \A i \in DOMAIN new_root :
             ( /\ channel_mapping[j][2] # <<>>
               /\ new_root[i].tag = "programme"
               /\ new_root[i].channel = channel_mapping[j][1]
               /\ \E k \in DOMAIN image_map :
                     EntryWithin(k, channel_mapping[j][2], new_root[i]) )
             => \E k \in DOMAIN image_map :
                   /\ EntryWithin(k, channel_mapping[j][2], new_root[i])
                   /\ Srcs(new_root'[i].icons) = image_map[k][2] ]_vars

-----------------------------------------------------------------------------
(* C9 *)

\* one icon per image URL, in order, width and height on the first only
IconsOf(images) ==
    [n \in DOMAIN images |->
        IF n = 1 THEN Icon(images[n], "300", "200") ELSE Icon(images[n], "", "")]

\* C9: after merge_programme_images every programme either has the icons it
\* had (no entry was matched) or has exactly one icon per image URL of an
\* entry of the image index, in the entry's order, none of its former icons
\* among them, and width=300 height=200 on the first icon only.
C9_MatchReplacesIcons ==
    [][ ImagesStep =>
          \A i \in DOMAIN new_root :
             new_root[i].tag = "programme" =>
                \/ new_root'[i] = new_root[i]
                \/ \E k \in DOMAIN image_map :
                      new_root'[i] = [new_root[i] EXCEPT !.icons = IconsOf(image_map[k][2])] ]_vars

\* C9 witness: a programme was matched with an entry of two images: it has
\* two icons, the first with the size, and the icon the main feed gives
\* its programmes is gone.
C9_Witness ==
    /\ pc = "images"
    /\ merged_count >= 1
    /\ \E i \in DOMAIN new_root :
          /\ Len(new_root[i].icons) = 2
          /\ new_root[i].icons[1].width = "300" /\ new_root[i].icons[1].height = "200"
          /\ new_root[i].icons[2].width = "" /\ new_root[i].icons[2].height = ""
          /\ \A n \in DOMAIN new_root[i].icons : new_root[i].icons[n].src # "old"

-----------------------------------------------------------------------------
(* update_epg and the scheduler *)

\* how the file operation op ends in a run in which fault is what fails
how(fault, op) ==
    IF fault = <<op, "error">> THEN "error"
    ELSE IF fault = <<op, "partial">> THEN "partial"
    ELSE "ok"

\* what a run has in memory and on disk when it ends: the files, new_root,
\* old_root, what step 4 appended and whether it raised, merged_programmes,
\* epg2_root and image_map, and what it logged
Run(outcome, current, old, esc) ==
    [outcome |-> outcome, epg_file |-> current, epg_old_file |-> old,
     epg_file_escaped |-> esc, new_root |-> <<>>, old_root |-> <<>>,
     appended |-> <<>>, raised |-> FALSE, merged_count |-> 0,
     epg2_root |-> <<>>, image_map |-> <<>>]

\* Step 4 after both merges returned (or the second one raised)
merged_both(run, old_root_, channels, programmes) ==
    [run EXCEPT !.new_root = programmes.root,
                !.old_root = old_root_,
                !.appended = channels.merged \o programmes.merged,
                !.raised = programmes.raised,
                !.merged_count = programmes.count]

\* Step 4 after merge_missing_channels returned
merge_programmes(run, old_root_, channels, t) ==
    merged_both(run, old_root_, channels,
                merge_missing_programmes(channels.root, old_root_, t))

\* Step 4: read and parse epg_old.xml and merge it into new_root
step_4(run, read, t) ==
    LET old_parsed == IF run.epg_old_file.exists /\ read = "ok"
                      THEN parse_epg_xml(run.epg_old_file)
                      ELSE [ok |-> FALSE, root |-> <<>>]
    IN  IF old_parsed.ok
        THEN merge_programmes(run, old_parsed.root,
                              merge_missing_channels(run.new_root, old_parsed.root), t)
        ELSE run

\* Step 5 after merge_programme_images returned, or raised: the exception
\* leaves update_epg through the outer except
merged_images(run, epg2_root_, map, images) ==
    [run EXCEPT !.outcome = IF images.raised THEN "error" ELSE @,
                !.new_root = images.root,
                !.epg2_root = epg2_root_,
                !.image_map = map]

\* Step 5 after extract_programme_images returned
merge_images(run, epg2_root_, map, mapping) ==
    merged_images(run, epg2_root_, map,
                  merge_programme_images(run.new_root, map, mapping))

\* Step 5: fetch and parse the second feed and attach its images
step_5(run, cfg, mapping, epg2) ==
    IF cfg.epg2_url /\ epg2.fetched /\ parse_epg_xml(epg2).ok
    THEN merge_images(run, parse_epg_xml(epg2).root,
                      extract_programme_images(parse_epg_xml(epg2).root), mapping)
    ELSE run

\* Step 7 after save_epg_file returned
step_7(run, saved, write) ==
    [run EXCEPT !.outcome = IF saved.ok THEN "saved" ELSE "save_failed",
                !.epg_file = saved.file,
                !.epg_file_escaped =
                    save_escaped_epg_file(saved.file, run.epg_file_escaped, write).file]

\* Steps 6 and 7: write epg_unescaped.xml, then epg.xml from it
steps_6_7(run, fault) ==
    IF run.outcome = "error" THEN run
    ELSE step_7(run, save_epg_file(run.epg_file, run.new_root, how(fault, "save")),
           how(fault, "save_escaped"))

\* update_epg() called at wall-clock time t with the three files as they are;
\* fetch and epg2 are what the two feeds return, fault is the file operation
\* that fails in this run (if any)
update_epg(t, cfg, mapping, current, old, esc, fetch, epg2, fault) ==
    LET backup == backup_current_epg(current, old, how(fault, "backup"))
        parsed == parse_epg_xml(fetch)
    IN  IF is_now_in_cron(cfg.skip_cron, t) THEN Run("skipped", current, old, esc)
        ELSE IF ~backup.ok THEN Run("backup_failed", current, backup.old, esc)
        ELSE IF ~fetch.fetched THEN Run("fetch_failed", current, backup.old, esc)
        ELSE IF ~parsed.ok THEN Run("parse_failed", current, backup.old, esc)
        ELSE steps_6_7(
                 step_5(
                     step_4([Run("parsed", current, backup.old, esc)
                                EXCEPT !.new_root = parsed.root],
                            how(fault, "read_old"), t),
                     cfg, mapping, epg2),
                 fault)

\* the runs the scheduler performs: the initial one and MaxRuns - 1 hourly ones
MaxRuns == 3

\* programmes of the primary feed: one that started 23.5 hours before the
\* first run and stopped 21 hours before it, upcoming ones with and without
\* a timezone, and one of another channel
Aired == Programme(Id5, TzStr(DayAgo + 30 * SecondsPerMinute, 0),
                   TzStr(DayAgo + 3 * Hour, 0), <<>>)
Upcoming == Programme(Id5, TzStr(Now0 + 5 * Hour, 0), TzStr(Now0 + 6 * Hour, 0), <<>>)
UpcomingNaive == Programme(Id5, PlainStr(Now0 + 5 * Hour), PlainStr(Now0 + 6 * Hour), <<>>)
Other == Programme(Id7, TzStr(Now0 + 5 * Hour, 0), TzStr(Now0 + 6 * Hour, 0), <<>>)

FetchedDocs ==
    { <<>>,
      <<Channel(Id5), Aired>>,
      <<Channel(Id5), Upcoming>>,
      <<Channel(Id5), UpcomingNaive>>,
      <<Channel(Id7), Other>> }

FetchResults == {FetchFailed, Malformed} \cup { Xml(d) : d \in FetchedDocs }

Epg2Results ==
    { FetchFailed,
      Xml(<<Programme(SecN, TzStr(Now0 + 5 * Hour + SecondsPerMinute, 0),
                      TzStr(Now0 + 6 * Hour, 0), <<Icon("u1", "", "")>>)>>) }

\* at most one file operation fails in a run
Faults ==
    {<<"none", "ok">>, <<"read_old", "error">>}
        \cup ({"backup", "save", "save_escaped"} \X {"error", "partial"})

\* SKIP_CRON and EPG2_URL: the defaults, and a skip expression that fires at
\* 02:00 every day, without and with a secondary feed
Configs ==
    { [skip_cron |-> EveryMinute, epg2_url |-> FALSE],
      [skip_cron |-> Cron(SecondsPerDay, 2 * Hour), epg2_url |-> FALSE],
      [skip_cron |-> Cron(SecondsPerDay, 2 * Hour), epg2_url |-> TRUE] }

\* channel_mapping.csv: channel 5 mapped to a secondary channel, and a channel
\* with an apostrophe in its id mapped to it
IdQuote == <<"5", "'">>
MappingFiles == { <<<<Id5, SecN>>>>, <<<<IdQuote, SecN>>>> }

\* EPGCacher() on an empty output directory, then run_scheduler()
Init ==
    /\ pc = "due"
    /\ now = Now0
    /\ config \in Configs
    /\ mapping_rows \in (IF config.epg2_url THEN MappingFiles ELSE {<<>>})
    /\ channel_mapping = load_channel_mapping(mapping_rows)
    /\ epg_file = Absent /\ epg_old_file = Absent /\ epg_file_escaped = Absent
    /\ journal = NoRun
    /\ new_root = <<>> /\ old_root = <<>> /\ appended = <<>>
    /\ raised = FALSE /\ merged_count = 0
    /\ epg2_root = <<>> /\ image_map = <<>>
    /\ NoOther

\* one call of update_epg, from the scheduler
UpdateEpg ==
    /\ pc = "due"
    /\ \E fetch \in FetchResults, fault \in Faults,
          epg2 \in (IF config.epg2_url THEN Epg2Results ELSE {FetchFailed}) :
          \E r \in {update_epg(now, config, channel_mapping, epg_file, epg_old_file,
                              epg_file_escaped, fetch, epg2, fault)} :
              /\ epg_file' = r.epg_file
              /\ epg_old_file' = r.epg_old_file
              /\ epg_file_escaped' = r.epg_file_escaped
              /\ new_root' = r.new_root
              /\ old_root' = r.old_root
              /\ appended' = r.appended
              /\ raised' = r.raised
              /\ merged_count' = r.merged_count
              /\ epg2_root' = r.epg2_root
              /\ image_map' = r.image_map
              /\ journal' = [outcome |-> r.outcome, fetch |-> fetch, fault |-> fault]
    /\ pc' = "sleeping"
    /\ UNCHANGED <<now, mapping_rows, channel_mapping, config, other_vars>>

\* schedule.every().hour: the loop sleeps until the job is due again
Sleep ==
    /\ pc = "sleeping"
    /\ now + Hour < Now0 + MaxRuns * Hour
    /\ now' = now + Hour
    /\ pc' = "due"
    /\ UNCHANGED <<new_root, old_root, raised, merged_count, appended,
                   mapping_rows, channel_mapping, epg2_root, image_map, epg_file,
                   epg_old_file, epg_file_escaped, journal, config, other_vars>>

\* the process is killed in a run, after backup_current_epg copied the file
\* and before save_epg_file returned: epg_unescaped.xml is as it was, or was
\* truncated by the open and holds none or part of the new text.  The process
\* is started again: EPGCacher() loads the mapping and run_scheduler() makes
\* its initial call of update_epg.
Kill ==
    /\ pc = "due"
    /\ ~is_now_in_cron(config.skip_cron, now)
    /\ epg_old_file' = backup_current_epg(epg_file, epg_old_file, "ok").old
    /\ epg_file' \in {epg_file, BrokenFile}
    /\ journal' = [outcome |-> "killed", fetch |-> FetchFailed,
                   fault |-> <<"none", "ok">>]
    /\ new_root' = <<>> /\ old_root' = <<>> /\ appended' = <<>>
    /\ raised' = FALSE /\ merged_count' = 0
    /\ epg2_root' = <<>> /\ image_map' = <<>>
    /\ channel_mapping' = load_channel_mapping(mapping_rows)
    /\ pc' = "due"
    /\ UNCHANGED <<now, mapping_rows, epg_file_escaped, config, other_vars>>

Next == UpdateEpg \/ Sleep \/ Kill

Spec == Init /\ [][Next]_vars

-----------------------------------------------------------------------------
(* C6 *)

\* a step that is one call of update_epg
RunStep == pc = "due" /\ pc' = "sleeping"

Programmes(root) == SeqToSet(findall(root, "programme"))

\* the programme p (by channel, start and stop; its images may differ) is in
\* the document
Holds(root, p) ==
    \E q \in Programmes(root) :
        q.channel = p.channel /\ q.start = p.start /\ q.stop = p.stop

\* C6: across runs of update_epg, a programme that is in the stored guide
\* (epg_unescaped.xml as a successful run left it) and absent from the fetched
\* document is still in the stored guide after the next successful run, as
\* long as its stop is not older than a day and no fetched programme of its
\* channel overlaps it within the tolerance.  Read for the runs that read the
\* stored guide back as the old document and merged it without raising.
C6_StoredProgrammeSurvives ==
    [][ ( /\ RunStep
          /\ journal'.outcome = "saved"
          /\ epg_file.exists /\ epg_file.well_formed
          /\ old_root' = epg_file.root /\ ~raised' )
        => \A p \in Programmes(epg_file.root) :
              ( /\ ~Holds(journal'.fetch.root, p)
                /\ ~StaleByStop(p)
                /\ \A n \in Programmes(journal'.fetch.root) :
                      n.channel = p.channel => ~WithinTolerance(p, n) )
              => Holds(epg_file'.root, p) ]_vars

-----------------------------------------------------------------------------
(* C10 *)

\* C10: a run of update_epg in which the primary feed returns nothing, or
\* text that is not well-formed XML, leaves epg_unescaped.xml and epg.xml with
\* the contents they had before the run.
C10_FailedFetchWritesNoOutput ==
    [][ ( /\ RunStep
          /\ ~(journal'.fetch.fetched /\ journal'.fetch.well_formed) )
        => /\ epg_file' = epg_file
           /\ epg_file_escaped' = epg_file_escaped ]_vars

\* a run that was handed text it could not parse has ended, after the
\* backup, with both output files as an earlier run wrote them
C10_Witness ==
    /\ pc = "sleeping"
    /\ journal.outcome = "parse_failed"
    /\ journal.fetch = Malformed
    /\ epg_file.exists /\ epg_file.root # <<>>
    /\ epg_file_escaped.exists /\ epg_file_escaped.root # <<>>
    /\ epg_old_file = epg_file

-----------------------------------------------------------------------------
(* C11 *)

\* a call of update_epg that is not skipped, is handed a well-formed primary
\* document, and in which neither the backup nor the write of
\* epg_unescaped.xml is bound to fail
PrimaryRun ==
    /\ RunStep
    /\ ~is_now_in_cron(config.skip_cron, now)
    /\ journal'.fetch.fetched /\ journal'.fetch.well_formed
    /\ journal'.fault[1] \notin {"backup", "save"}

\* C11: once the primary document is fetched and parsed, no failure in
\* loading or merging the old document or in the secondary-feed pipeline
\* aborts the run: save_epg_file is reached and epg_unescaped.xml holds the
\* fetched programmes afterwards.
C11_EnrichmentFailureStillSaves ==
    [][ PrimaryRun
        => /\ journal'.outcome = "saved"
           /\ epg_file'.exists /\ epg_file'.well_formed
           /\ \A p \in Programmes(journal'.fetch.root) : Holds(epg_file'.root, p) ]_vars

-----------------------------------------------------------------------------
(* fetch_epg.py and functions.py: elements with their attribute dictionaries *)

\* An element of these scripts is [tag, attrib]; attrib maps the names of the
\* attributes the element carries to their values (a timestamp text for start
\* and stop, a string for id and channel).
Element(tag, attrib) == [tag |-> tag, attrib |-> attrib]

\* element.attrib.get(key, default)
get(e, key, default) == IF key \in DOMAIN e.attrib THEN e.attrib[key] ELSE default

\* DATE_FMT
DATE_FMT == formats[1]

\* get_datetime(stop_str): strptime with DATE_FMT, None when it raises
get_datetime(stop_str) == strptime(stop_str, DATE_FMT)

\* is_old_programme(programme) at time t (datetime.now().astimezone(), the
\* local zone taken as UTC): stop and stop < one_day_ago
is_old_programme(programme, t) ==
    LET stop == get_datetime(get(programme, "stop", EmptyStr))
    IN  stop.ok /\ instant(stop) < t - SecondsPerDay

-----------------------------------------------------------------------------
(* fetch_epg.py *)

\* fetch_epg.attributes_match(existing, element)
fetch_epg_attributes_match(ex, el) ==
    IF Cardinality(DOMAIN ex.attrib) # Cardinality(DOMAIN el.attrib) THEN FALSE
    ELSE \A existing_key \in DOMAIN ex.attrib :
            /\ existing_key \in DOMAIN el.attrib
            /\ \/ existing_key = "start"
               \/ ex.attrib[existing_key] = el.attrib[existing_key]

\* fetch_epg.element_exists_in_tree(element, tree)
fetch_epg_element_exists_in_tree(el, root) ==
    \E i \in DOMAIN root :
        root[i].tag = el.tag /\ fetch_epg_attributes_match(root[i], el)

\* the loop "Writing missing cached elements to out" of fetch_epg.merge_epgs
RECURSIVE fetch_epg_add_missing(_, _, _)
fetch_epg_add_missing(out, todo, t) ==
    IF todo = <<>> THEN out
    ELSE LET epg_old_elem == Head(todo)
         IN  IF fetch_epg_element_exists_in_tree(epg_old_elem, out)
             THEN fetch_epg_add_missing(out, Tail(todo), t)
             ELSE IF epg_old_elem.tag = "programme" /\ is_old_programme(epg_old_elem, t)
             THEN fetch_epg_add_missing(out, Tail(todo), t)
             ELSE fetch_epg_add_missing(Append(out, epg_old_elem), Tail(todo), t)

\* fetch_epg.merge_epgs() on the files FETCH_CACHE and EPG_OLD at time t: the
\* tree returned, or raised when the call ends by an exception
\* (FileNotFoundError from ET.parse, AttributeError from fetch_root.tag)
fetch_epg_merge_epgs(cache, old, t) ==
    IF ~cache.exists \/ ~old.exists \/ ~cache.well_formed
    THEN [raised |-> TRUE, root |-> <<>>]
    ELSE [raised |-> FALSE,
          root |-> IF old.well_formed
                   THEN fetch_epg_add_missing(cache.root, old.root, t)
                   ELSE cache.root]

\* backup_old_epg(): copy the current file over the old one, or create an
\* empty old file
backup_old_epg(current) == IF current.exists THEN current ELSE BrokenFile

\* what one iteration of the loop around fetch_epg.main() leaves behind
Main(alive_, cache, current, old, outcome) ==
    [alive |-> alive_, fetch_cache |-> cache, epg_file |-> current,
     epg_old_file |-> old, outcome |-> outcome]

\* fetch_epg.main() after download_epg and backup_old_epg returned
fetch_epg_merge_and_write(cache, old, current, merged) ==
    IF merged.raised THEN Main(FALSE, cache, current, old, "merge_raised")
    ELSE Main(TRUE, cache, XmlFile(merged.root), old, "done")

\* fetch_epg.main() at time t, download being what requests.get brings
fetch_epg_main(cache, current, old, download, t) ==
    IF ~download.fetched THEN Main(FALSE, cache, current, old, "download_raised")
    ELSE fetch_epg_merge_and_write(
             [exists |-> TRUE, well_formed |-> download.well_formed,
              root |-> download.root],
             backup_old_epg(current), current,
             fetch_epg_merge_epgs(
                 [exists |-> TRUE, well_formed |-> download.well_formed,
                  root |-> download.root],
                 backup_old_epg(current), t))

\* documents of the feed: a channel and an upcoming programme; the same
\* programme with start and stop 20 seconds later; a programme that stopped
\* 25 hours before the first run; the same without a stop
Ch5 == Element("channel", [id |-> "5"])
Show == Element("programme", [channel |-> "5", start |-> TzStr(Now0 + 5 * Hour, 0),
                              stop |-> TzStr(Now0 + 6 * Hour, 0)])
ShowShifted == Element("programme", [channel |-> "5",
                                     start |-> TzStr(Now0 + 5 * Hour + 20, 0),
                                     stop |-> TzStr(Now0 + 6 * Hour + 20, 0)])
Gone == Element("programme", [channel |-> "5", start |-> TzStr(DayAgo - 2 * Hour, 0),
                              stop |-> TzStr(DayAgo - Hour, 0)])
Open == Element("programme", [channel |-> "5", start |-> TzStr(DayAgo - 2 * Hour, 0)])

FeedDocs ==
    { <<>>, <<Ch5, Show>>, <<Ch5, ShowShifted>>, <<Gone>>, <<Open, Show>> }

Downloads == {FetchFailed, Malformed} \cup { Xml(d) : d \in FeedDocs }

\* python fetch_epg.py on an empty output directory
InitFetch ==
    /\ pc = "due"
    /\ now = Now0
    /\ alive = TRUE
    /\ fetch_cache = Absent /\ epg_file = Absent /\ epg_old_file = Absent
    /\ epg_file_escaped = Absent
    /\ journal = NoRun
    /\ config = [skip_cron |-> EveryMinute, epg2_url |-> FALSE]
    /\ mapping_rows = <<>> /\ channel_mapping = <<>>
    /\ new_root = <<>> /\ old_root = <<>> /\ appended = <<>>
    /\ raised = FALSE /\ merged_count = 0
    /\ epg2_root = <<>> /\ image_map = <<>>
    /\ existing = <<>> /\ element = <<>> /\ dt_arg = 0 /\ returned = "none"
    /\ in_flight = 0 /\ next_run = 0
    /\ worker = [w \in Workers |-> NoRequest]

\* one iteration of "while True: main()": an exception main() lets through
\* ends the process
FetchEpgMain ==
    /\ pc = "due" /\ alive
    /\ \E download \in Downloads :
          \E r \in {fetch_epg_main(fetch_cache, epg_file, epg_old_file, download, now)} :
              /\ alive' = r.alive
              /\ fetch_cache' = r.fetch_cache
              /\ epg_file' = r.epg_file
              /\ epg_old_file' = r.epg_old_file
              /\ journal' = [outcome |-> r.outcome, fetch |-> download,
                             fault |-> <<"none", "ok">>]
    /\ pc' = "sleeping"
    /\ UNCHANGED <<now, new_root, old_root, raised, merged_count, appended,
                   mapping_rows, channel_mapping, epg2_root, image_map,
                   epg_file_escaped, config, existing, element, dt_arg, returned,
                   in_flight, next_run,
                   worker>>

\* time.sleep(INTERVAL), INTERVAL left at 3600
FetchSleep ==
    /\ pc = "sleeping" /\ alive
    /\ now + Hour < Now0 + MaxRuns * Hour
    /\ now' = now + Hour
    /\ pc' = "due"
    /\ UNCHANGED <<new_root, old_root, raised, merged_count, appended,
                   mapping_rows, channel_mapping, epg2_root, image_map, epg_file,
                   epg_old_file, epg_file_escaped, journal, config, other_vars>>

NextFetch == FetchEpgMain \/ FetchSleep

SpecFetch == InitFetch /\ [][NextFetch]_vars

-----------------------------------------------------------------------------
(* C12 *)

\* C12: no failure inside a run ends the long-lived process: the scheduler
\* loop of fetch_epg.py (as that of EPGCacher.run_scheduler) is alive after
\* every run, whatever the run met.
C12_ProcessSurvivesEveryRun == alive

-----------------------------------------------------------------------------
(* run_scheduler: the loop around schedule.run_pending() *)

\* no document is in memory and no file is on disk
NoCacher ==
    /\ new_root = <<>> /\ old_root = <<>> /\ appended = <<>>
    /\ raised = FALSE /\ merged_count = 0
    /\ mapping_rows = <<>> /\ channel_mapping = <<>>
    /\ epg2_root = <<>> /\ image_map = <<>>
    /\ epg_file = Absent /\ epg_old_file = Absent /\ epg_file_escaped = Absent
    /\ journal = NoRun
    /\ config = [skip_cron |-> EveryMinute, epg2_url |-> FALSE]
    /\ worker = [w \in Workers |-> NoRequest]

cacher_vars == <<new_root, old_root, raised, merged_count, appended, mapping_rows,
                 channel_mapping, epg2_root, image_map, epg_file, epg_old_file,
                 epg_file_escaped, journal, config>>

\* how long the scheduler is followed, in minutes
MaxMinutes == 130

\* a second scheduler thread that calls run_pending() whatever the first does
run_pending_reached_threaded(pc_) == pc_ \in {"loop", "job"}

\* the loop is at schedule.run_pending(): job.run() calls update_epg in the
\* calling thread and returns when it has returned
run_pending_reached(pc_) == pc_ = "loop"

\* schedule.every().hour.do(self.update_epg), then the initial self.update_epg()
InitSched ==
    /\ pc = "initial"
    /\ now = Now0
    /\ next_run = Now0 + Hour
    /\ in_flight = 1
    /\ alive = TRUE /\ fetch_cache = Absent
    /\ existing = <<>> /\ element = <<>> /\ dt_arg = 0 /\ returned = "none"
    /\ NoCacher

\* a minute passes while update_epg is executing
Elapse ==
    /\ pc \in {"initial", "job"}
    /\ now + SecondsPerMinute <= Now0 + MaxMinutes * SecondsPerMinute
    /\ now' = now + SecondsPerMinute
    /\ UNCHANGED <<pc, cacher_vars, alive, fetch_cache, existing, element, dt_arg,
                   returned, in_flight, next_run,
                   worker>>

\* the initial update_epg() returns; the loop is entered
EndInitial ==
    /\ pc = "initial"
    /\ in_flight' = in_flight - 1
    /\ pc' = "loop"
    /\ UNCHANGED <<now, cacher_vars, alive, fetch_cache, existing, element, dt_arg,
                   returned, next_run,
                   worker>>

\* schedule.run_pending(): the job is run when it is due
RunPending ==
    /\ run_pending_reached(pc)
    /\ IF now >= next_run
       THEN in_flight' = in_flight + 1 /\ pc' = "job"
       ELSE in_flight' = in_flight /\ pc' = "sleep"
    /\ UNCHANGED <<now, cacher_vars, alive, fetch_cache, existing, element, dt_arg,
                   returned, next_run,
                   worker>>

\* update_epg returns to job.run(), which schedules the next run an hour from
\* now
EndJob ==
    /\ pc = "job"
    /\ in_flight' = in_flight - 1
    /\ next_run' = now + Hour
    /\ pc' = "sleep"
    /\ UNCHANGED <<now, cacher_vars, alive, fetch_cache, existing, element, dt_arg,
                   returned,
                   worker>>

\* time.sleep(60)
SleepMinute ==
    /\ pc = "sleep"
    /\ now + SecondsPerMinute <= Now0 + MaxMinutes * SecondsPerMinute
    /\ now' = now + SecondsPerMinute
    /\ pc' = "loop"
    /\ UNCHANGED <<cacher_vars, alive, fetch_cache, existing, element, dt_arg,
                   returned, in_flight, next_run,
                   worker>>

NextSched == Elapse \/ EndInitial \/ RunPending \/ EndJob \/ SleepMinute

SpecSched == InitSched /\ [][NextSched]_vars

-----------------------------------------------------------------------------
(* C13 *)

\* C13: at most one update_epg run is in flight at any time; a trigger that
\* becomes due while a run is executing starts no second run.
C13_AtMostOneRunInFlight == in_flight <= 1

\* a scheduled run is executing and has been for an hour or more, so that the
\* hourly job has become due again during it
C13_Witness ==
    /\ pc = "job" /\ in_flight = 1
    /\ now >= next_run + Hour

-----------------------------------------------------------------------------
(* functions._round_time_to_nearest_five *)

\* A datetime is here [wall, microsecond]: the wall clock in whole seconds
\* and the microsecond field; a timedelta is a number of microseconds.
MicrosPerSecond == 1000000
Micros(seconds) == seconds * MicrosPerSecond
At(wall, microsecond_) == [wall |-> wall, microsecond |-> microsecond_]

minute(t) == (t.wall \div SecondsPerMinute) % 60
second(t) == t.wall % 60

\* timedelta(minutes=dt.minute % 5, seconds=dt.second,
\*           microseconds=dt.microsecond)
discarded(t) == Micros((minute(t) % 5) * SecondsPerMinute + second(t)) + t.microsecond

\* dt - timedelta(microseconds=d)
minus(t, d) ==
    At(t.wall - ((d + MicrosPerSecond - 1 - t.microsecond) \div MicrosPerSecond),
       (t.microsecond - d) % MicrosPerSecond)

\* rounding that only drops the discarded part
round_down_to_five(t) == minus(t, discarded(t))

\* _round_time_to_nearest_five(dt), dt not None
_round_time_to_nearest_five(t) ==
    LET discard == discarded(t)
    IN  IF 2 * discard >= Micros(5 * SecondsPerMinute)
        THEN [minus(t, discard) EXCEPT !.wall = @ + 5 * SecondsPerMinute]
        ELSE minus(t, discard)

\* datetimes in the last hour before and the first minutes after midnight:
\* minutes around the 5-minute marks, seconds around the half minute,
\* microseconds around zero
RoundInputs ==
    { At(Now0 - Hour + m * SecondsPerMinute + s, u) :
        m \in {0, 1, 2, 3, 4, 5, 7, 12, 57, 58, 59, 60, 62},
        s \in {0, 29, 30, 59},
        u \in {0, 1, 999999} }

InitRound ==
    /\ pc = "call"
    /\ now = Now0
    /\ dt_arg \in RoundInputs
    /\ returned = At(0, 0)
    /\ alive = TRUE /\ fetch_cache = Absent
    /\ existing = <<>> /\ element = <<>>
    /\ in_flight = 0 /\ next_run = 0
    /\ NoCacher

\* _round_time_to_nearest_five(dt)
Round ==
    /\ pc = "call"
    /\ returned' = _round_time_to_nearest_five(dt_arg)
    /\ pc' = "returned"
    /\ UNCHANGED <<now, cacher_vars, alive, fetch_cache, existing, element, dt_arg,
                   in_flight, next_run,
                   worker>>

\* the function applied to its own result
RoundAgain ==
    /\ pc = "returned"
    /\ dt_arg' = returned
    /\ returned' = _round_time_to_nearest_five(returned)
    /\ pc' = "returned_again"
    /\ UNCHANGED <<now, cacher_vars, alive, fetch_cache, existing, element,
                   in_flight, next_run,
                   worker>>

NextRound == Round \/ RoundAgain

SpecRound == InitRound /\ [][NextRound]_vars

-----------------------------------------------------------------------------
(* C14 *)

FiveMinutes == Micros(5 * SecondsPerMinute)

\* later - earlier, in microseconds
Between(earlier, later) ==
    Micros(later.wall - earlier.wall) + later.microsecond - earlier.microsecond

OnMark(t) == t.wall % (5 * SecondsPerMinute) = 0 /\ t.microsecond = 0

\* C14: _round_time_to_nearest_five returns the nearest instant on a 5-minute
\* mark with zero seconds and microseconds, the later one when the datetime
\* is 2 min 30 s or more past the earlier one (carrying into the next hour
\* and day); a datetime on a mark is returned unchanged, and so is the result
\* when the function is applied to it again.
C14_RoundsToNearestFive ==
    pc \in {"returned", "returned_again"} =>
        /\ OnMark(returned)
        /\ 2 * Between(dt_arg, returned) <= FiveMinutes
        /\ 2 * Between(returned, dt_arg) < FiveMinutes
        /\ OnMark(dt_arg) => returned = dt_arg
        /\ pc = "returned_again" => returned = dt_arg

\* 23:57:30 was rounded up to midnight, and rounding midnight gave midnight
C14_Witness ==
    /\ pc = "returned_again"
    /\ returned = At(Now0, 0)
    /\ dt_arg = At(Now0, 0)

-----------------------------------------------------------------------------
(* functions.py *)

\* datetime.strptime(text, DATE_FMT) raises: the attribute is missing (None)
\* or its text does not have the format
strptime_raises(e, key) == ~strptime(get(e, key, EmptyStr), DATE_FMT).ok

\* is_overlap(a, b): "true", "false", or "raise" when strptime raises
is_overlap(a, b) ==
    IF \/ strptime_raises(a, "start") \/ strptime_raises(a, "stop")
       \/ strptime_raises(b, "start") \/ strptime_raises(b, "stop")
    THEN "raise"
    ELSE IF /\ instant(strptime(a.attrib.start, DATE_FMT)) < instant(strptime(b.attrib.stop, DATE_FMT))
            /\ instant(strptime(a.attrib.stop, DATE_FMT)) > instant(strptime(b.attrib.start, DATE_FMT))
         THEN "true" ELSE "false"

\* is_same_channel(a, b): a missing attribute reads None on either side
is_same_channel(a, b) ==
    IF "channel" \in DOMAIN a.attrib /\ "channel" \in DOMAIN b.attrib
    THEN a.attrib.channel = b.attrib.channel
    ELSE "channel" \notin DOMAIN a.attrib /\ "channel" \notin DOMAIN b.attrib

keys_programme == {"id"}
keys_channel == {"channel", "start", "stop"}

\* functions.attributes_match(existing, element): "true", "false" or "raise"
functions_attributes_match(ex, el) ==
    LET existing_keys == DOMAIN ex.attrib
        element_keys == DOMAIN el.attrib
    IN  IF Cardinality(existing_keys) # Cardinality(element_keys) THEN "false"
        ELSE IF existing_keys \subseteq keys_programme /\ element_keys \subseteq keys_programme
        THEN IF \A k \in existing_keys : k \in element_keys /\ ex.attrib[k] = el.attrib[k]
             THEN "true" ELSE "false"
        ELSE IF ~(existing_keys \subseteq keys_channel) \/ ~(element_keys \subseteq keys_channel)
        THEN "false"
        ELSE IF ~(existing_keys \subseteq element_keys) THEN "false"
        ELSE IF ~is_same_channel(ex, el) THEN "false"
        ELSE is_overlap(ex, el)

\* the loop of functions.element_exists_in_tree over root.findall(element.tag)
RECURSIVE functions_exists_loop(_, _)
functions_exists_loop(candidates, el) ==
    IF candidates = <<>> THEN "false"
    ELSE IF functions_attributes_match(Head(candidates), el) = "false"
    THEN functions_exists_loop(Tail(candidates), el)
    ELSE functions_attributes_match(Head(candidates), el)

\* functions.element_exists_in_tree(element, tree); tree.getroot() raises
\* AttributeError when tree is None
functions_element_exists_in_tree(el, tree) ==
    IF ~tree.well_formed THEN "raise"
    ELSE functions_exists_loop(SelectSeq(tree.root, LAMBDA x : x.tag = el.tag), el)

\* the loop of functions.merge_epgs over the children of the second root
RECURSIVE functions_merge_loop(_, _, _, _)
functions_merge_loop(main, todo, t, added) ==
    IF todo = <<>> THEN [raised |-> FALSE, tree |-> main, appended |-> added]
    ELSE LET seccond_tree_elem == Head(todo)
             exists == functions_element_exists_in_tree(seccond_tree_elem, main)
         IN  IF exists = "raise"
             THEN [raised |-> TRUE, tree |-> main, appended |-> added]
             ELSE IF exists = "false"
             THEN functions_merge_loop(main, Tail(todo), t, added)
             ELSE IF /\ seccond_tree_elem.tag = "programme"
                     /\ is_old_programme(seccond_tree_elem, t)
             THEN functions_merge_loop(main, Tail(todo), t, added)
             ELSE functions_merge_loop(
                      [main EXCEPT !.root = Append(@, seccond_tree_elem)],
                      Tail(todo), t, Append(added, seccond_tree_elem))

\* get_tree(path): the tree, or None when the text does not parse (the record
\* with well_formed FALSE and no root)
get_tree(file) == [file EXCEPT !.root = IF file.well_formed THEN @ ELSE <<>>]

\* functions.merge_epgs(main, seccond) at time t: the tree returned (not
\* well_formed stands for None), what was appended, and whether the call
\* ended by an exception (FileNotFoundError from ET.parse, AttributeError
\* from tree.getroot() on None, ValueError or TypeError from strptime)
functions_merge_epgs(main, seccond, t) ==
    IF ~main.exists \/ ~seccond.exists
    THEN [raised |-> TRUE, tree |-> get_tree(BrokenFile), appended |-> <<>>]
    ELSE IF get_tree(seccond).well_formed
    THEN functions_merge_loop(get_tree(main), get_tree(seccond).root, t, <<>>)
    ELSE [raised |-> FALSE, tree |-> get_tree(main), appended |-> <<>>]

-----------------------------------------------------------------------------
(* The identity matchers applied to two elements *)

\* the EPGCacher element with the attributes of a [tag, attrib] element
AsProgramme(e) ==
    Programme(get(e, "channel", <<>>), get(e, "start", EmptyStr),
              get(e, "stop", EmptyStr), <<>>)

\* programmes of channel 5 around Show (05:00 to 06:00 after the first run):
\* one that starts when Show stops, one that starts 5 minutes after, one that
\* starts 2 hours after, one inside Show; Show on channel 7; Show with a stop
\* no format matches; Show with no timezone in its timestamps
Ch7 == Element("channel", [id |-> "7"])
Abutting == Element("programme", [channel |-> "5", start |-> TzStr(Now0 + 6 * Hour, 0),
                                  stop |-> TzStr(Now0 + 7 * Hour, 0)])
Near == Element("programme", [channel |-> "5",
                              start |-> TzStr(Now0 + 6 * Hour + 5 * SecondsPerMinute, 0),
                              stop |-> TzStr(Now0 + 7 * Hour, 0)])
Far == Element("programme", [channel |-> "5", start |-> TzStr(Now0 + 8 * Hour, 0),
                             stop |-> TzStr(Now0 + 9 * Hour, 0)])
Inside == Element("programme", [channel |-> "5",
                                start |-> TzStr(Now0 + 5 * Hour + 10 * SecondsPerMinute, 0),
                                stop |-> TzStr(Now0 + 6 * Hour - 10 * SecondsPerMinute, 0)])
Show7 == Element("programme", [channel |-> "7", start |-> TzStr(Now0 + 5 * Hour, 0),
                               stop |-> TzStr(Now0 + 6 * Hour, 0)])
Junk == Element("programme", [channel |-> "5", start |-> TzStr(Now0 + 5 * Hour, 0),
                              stop |-> JunkStr])
Plain == Element("programme", [channel |-> "5", start |-> PlainStr(Now0 + 5 * Hour),
                               stop |-> PlainStr(Now0 + 6 * Hour)])

MatchPool ==
    { Ch5, Ch7, Show, ShowShifted, Abutting, Near, Far, Inside, Show7, Junk, Plain,
      Open, Gone }

InitMatch ==
    /\ NoCacher
    /\ pc = "args"
    /\ now = Now0
    /\ alive = TRUE
    /\ fetch_cache = Absent
    /\ existing \in MatchPool /\ element \in MatchPool
    /\ dt_arg = 0 /\ returned = "none"
    /\ in_flight = 0 /\ next_run = 0

\* functions.attributes_match(existing, element)
FunctionsAttributesMatch ==
    /\ pc = "args"
    /\ returned' = functions_attributes_match(existing, element)
    /\ pc' = "functions"
    /\ UNCHANGED <<now, cacher_vars, alive, fetch_cache, existing, element, dt_arg,
                   in_flight, next_run,
                   worker>>

\* fetch_epg.attributes_match(existing, element)
FetchEpgAttributesMatch ==
    /\ pc = "args"
    /\ returned' = IF fetch_epg_attributes_match(existing, element)
                   THEN "true" ELSE "false"
    /\ pc' = "fetch_epg"
    /\ UNCHANGED <<now, cacher_vars, alive, fetch_cache, existing, element, dt_arg,
                   in_flight, next_run,
                   worker>>

\* EPGCacher.programmes_overlap(existing, element) on two programmes
ProgrammesOverlap ==
    /\ pc = "args"
    /\ existing.tag = "programme" /\ element.tag = "programme"
    /\ returned' = programmes_overlap(AsProgramme(existing), AsProgramme(element))
    /\ pc' = "programmes_overlap"
    /\ UNCHANGED <<now, cacher_vars, alive, fetch_cache, existing, element, dt_arg,
                   in_flight, next_run,
                   worker>>

NextMatch == FunctionsAttributesMatch \/ FetchEpgAttributesMatch \/ ProgrammesOverlap

SpecMatch == InitMatch /\ [][NextMatch]_vars

-----------------------------------------------------------------------------
(* C16 *)

\* the element carries exactly the attributes channel, start and stop
IsProgrammeKeys(e) == DOMAIN e.attrib = {"channel", "start", "stop"}

\* the four endpoints of two elements parse with DATE_FMT
EndpointsParse(a, b) ==
    /\ get_datetime(get(a, "start", EmptyStr)).ok
    /\ get_datetime(get(a, "stop", EmptyStr)).ok
    /\ get_datetime(get(b, "start", EmptyStr)).ok
    /\ get_datetime(get(b, "stop", EmptyStr)).ok

\* a.start <= b.stop + tolerance and a.stop + tolerance >= b.start
StampsWithinTolerance(a, b) ==
    /\ instant(get_datetime(a.attrib.start))
           <= instant(get_datetime(b.attrib.stop)) + tolerance
    /\ instant(get_datetime(a.attrib.stop)) + tolerance
           >= instant(get_datetime(b.attrib.start))

\* C16: functions.attributes_match on two elements whose attributes are
\* exactly channel, start and stop (with timestamps that parse) returns true
\* iff the channels are equal and existing.start <= candidate.stop + tolerance
\* and existing.stop + tolerance >= candidate.start; so same-channel
\* programmes that abut, or lie less than the tolerance apart, match.
C16_MatchWithinTolerance ==
    (/\ pc = "functions"
     /\ IsProgrammeKeys(existing) /\ IsProgrammeKeys(element)
     /\ EndpointsParse(existing, element))
    => (returned = "true" <=>
            /\ existing.attrib.channel = element.attrib.channel
            /\ StampsWithinTolerance(existing, element))

-----------------------------------------------------------------------------
(* C17 *)

\* the instant a stop text stands for once rounded to the nearest 5 minutes,
\* or the text itself when it does not parse
RoundedStop(e) ==
    IF get_datetime(e.attrib.stop).ok
    THEN <<"at", _round_time_to_nearest_five(At(get_datetime(e.attrib.stop).wall, 0)).wall
                     - get_datetime(e.attrib.stop).off>>
    ELSE <<"text", e.attrib.stop>>

\* C17: fetch_epg.attributes_match returns true iff the two elements have the
\* same attribute names, every attribute other than start and stop is equal,
\* start is ignored, and the two stops are equal once each is rounded to the
\* nearest 5 minutes.
C17_StopComparedRounded ==
    pc = "fetch_epg" =>
        (returned = "true" <=>
            /\ DOMAIN existing.attrib = DOMAIN element.attrib
            /\ \A k \in DOMAIN existing.attrib \ {"start", "stop"} :
                   existing.attrib[k] = element.attrib[k]
            /\ "stop" \in DOMAIN existing.attrib =>
                   RoundedStop(existing) = RoundedStop(element))

-----------------------------------------------------------------------------
(* C18 *)

\* functions.attributes_match(a, b) gets as far as is_overlap(a, b)
ReachesIsOverlap(a, b) ==
    /\ DOMAIN a.attrib = DOMAIN b.attrib
    /\ DOMAIN a.attrib \subseteq keys_channel
    /\ ~(DOMAIN a.attrib \subseteq keys_programme)
    /\ is_same_channel(a, b)

\* the four endpoints of two programmes parse with one of EPGCacher's formats
RangesParse(a, b) ==
    /\ get_programme_time_range(AsProgramme(a))[1].ok
    /\ get_programme_time_range(AsProgramme(a))[2].ok
    /\ get_programme_time_range(AsProgramme(b))[1].ok
    /\ get_programme_time_range(AsProgramme(b))[2].ok

\* C18: when one of the four endpoints of the two compared programmes is
\* missing or does not parse, the match is false as a value and nothing is
\* raised, in EPGCacher.programmes_overlap and in functions.is_overlap as
\* functions.attributes_match calls it.
C18_BadEndpointYieldsFalse ==
    /\ (pc = "programmes_overlap" /\ ~RangesParse(existing, element))
           => returned = "false"
    /\ (/\ pc = "functions"
        /\ ReachesIsOverlap(existing, element)
        /\ ~EndpointsParse(existing, element))
           => returned = "false"

-----------------------------------------------------------------------------
(* merge_epgs of functions.py and of fetch_epg.py on the two files *)

\* how many elements the fetched and the stored document hold together
MaxLegacy == 3

LegacyPool == { Ch5, Ch7, Show, Inside, Far, Gone, Open }

RECURSIVE LegacyDocs(_)
LegacyDocs(n) ==
    IF n = 0 THEN { <<>> }
    ELSE LegacyDocs(n - 1) \cup
         { Append(d, e) : d \in { x \in LegacyDocs(n - 1) : Len(x) = n - 1 },
                          e \in LegacyPool }

\* after download_epg wrote the response to FETCH_CACHE and backup_old_epg
\* copied the current output (or created an empty old file)
InitLegacy ==
    /\ pc = "backed_up"
    /\ now = Now0
    /\ alive = TRUE
    /\ \E main \in LegacyDocs(MaxLegacy) :
          /\ fetch_cache \in IF main = <<>> THEN {XmlFile(main), BrokenFile}
                             ELSE {XmlFile(main)}
          /\ \E current \in {Absent, BrokenFile} \cup
                    { XmlFile(d) : d \in LegacyDocs(MaxLegacy - Len(main)) } :
                /\ epg_file = current
                /\ epg_old_file = backup_old_epg(current)
    /\ epg_file_escaped = Absent
    /\ journal = NoRun
    /\ config = [skip_cron |-> EveryMinute, epg2_url |-> FALSE]
    /\ mapping_rows = <<>> /\ channel_mapping = <<>>
    /\ new_root = <<>> /\ old_root = <<>> /\ appended = <<>>
    /\ raised = FALSE /\ merged_count = 0
    /\ epg2_root = <<>> /\ image_map = <<>>
    /\ existing = <<>> /\ element = <<>> /\ dt_arg = 0 /\ returned = "none"
    /\ in_flight = 0 /\ next_run = 0
    /\ worker = [w \in Workers |-> NoRequest]

\* merged_epgs = functions.merge_epgs(FETCH_CACHE, EPG_OLD)
FunctionsMergeEpgs ==
    /\ pc = "backed_up"
    /\ \E r \in {functions_merge_epgs(fetch_cache, epg_old_file, now)} :
          /\ raised' = r.raised
          /\ new_root' = r.tree.root
          /\ appended' = r.appended
          /\ returned' = IF r.raised THEN "raise"
                         ELSE IF r.tree.well_formed THEN "tree" ELSE "None"
    /\ pc' = "functions_merged"
    /\ UNCHANGED <<now, old_root, merged_count, mapping_rows, channel_mapping,
                   epg2_root, image_map, epg_file, epg_old_file, epg_file_escaped,
                   journal, config, alive, fetch_cache, existing, element, dt_arg,
                   in_flight, next_run,
                   worker>>

\* merged_epgs = fetch_epg.merge_epgs()
FetchEpgMergeEpgs ==
    /\ pc = "backed_up"
    /\ \E r \in {fetch_epg_merge_epgs(fetch_cache, epg_old_file, now)} :
          /\ raised' = r.raised
          /\ new_root' = r.root
          /\ returned' = IF r.raised THEN "raise" ELSE "tree"
    /\ pc' = "fetch_epg_merged"
    /\ UNCHANGED <<now, old_root, merged_count, appended, mapping_rows,
                   channel_mapping, epg2_root, image_map, epg_file, epg_old_file,
                   epg_file_escaped, journal, config, alive, fetch_cache, existing,
                   element, dt_arg, in_flight, next_run,
                   worker>>

NextLegacy == FunctionsMergeEpgs \/ FetchEpgMergeEpgs

SpecLegacy == InitLegacy /\ [][NextLegacy]_vars

-----------------------------------------------------------------------------
(* C15 *)

\* some element of root with the tag of e matches e under attributes_match
MatchedIn(root, e) ==
    \E i \in DOMAIN root :
        root[i].tag = e.tag /\ functions_attributes_match(root[i], e) = "true"

\* what the merge is to append: each old element, in order, that nothing in
\* main (as grown so far) matches and that is not a stale programme
RECURSIVE Unmatched(_, _, _)
Unmatched(main, todo, t) ==
    IF todo = <<>> THEN <<>>
    ELSE IF \/ MatchedIn(main, Head(todo))
            \/ Head(todo).tag = "programme" /\ is_old_programme(Head(todo), t)
    THEN Unmatched(main, Tail(todo), t)
    ELSE <<Head(todo)>> \o Unmatched(Append(main, Head(todo)), Tail(todo), t)

\* C15: functions.merge_epgs appends an element of the old document to the
\* new one exactly when no element of the same tag in the new document
\* matches it and it is not a stale programme; an old element that matches
\* is never appended.
C15_AppendsExactlyTheUnmatched ==
    (pc = "functions_merged" /\ ~raised /\ returned = "tree")
        => appended = Unmatched(fetch_cache.root, get_tree(epg_old_file).root, now)

-----------------------------------------------------------------------------
(* C20 *)

\* C20: when the fetched file, the old file (the empty one backup_old_epg
\* creates included) or both do not parse, functions.merge_epgs and
\* fetch_epg.merge_epgs return a document and raise nothing.
C20_UnparsableInputNeverRaises ==
    (/\ pc \in {"functions_merged", "fetch_epg_merged"}
     /\ ~fetch_cache.well_formed \/ ~epg_old_file.well_formed)
        => ~raised /\ returned = "tree"

-----------------------------------------------------------------------------
(* C19 *)

\* C19: comparing a programme whose timestamps carry a timezone with one
\* whose timestamps carry none never fails: merge_missing_programmes ends
\* without an exception, having gone through every old programme.
C19_MixedTimezonesNeverFail == pc = "programmes" => ~raised

-----------------------------------------------------------------------------
(* The staleness tests applied to one programme at some time *)

\* how many days after the first run the tests are still applied
MaxDays == 4

\* Show without a start, and with a start no format matches
NoStart == Element("programme", [channel |-> "5", stop |-> TzStr(Now0 + 6 * Hour, 0)])
JunkStart == Element("programme", [channel |-> "5", start |-> JunkStr,
                                   stop |-> TzStr(Now0 + 6 * Hour, 0)])

StalePool == (MatchPool \ {Ch5, Ch7}) \cup {NoStart, JunkStart}

InitStale ==
    /\ NoCacher
    /\ pc = "args"
    /\ now \in { Now0 + d * SecondsPerDay : d \in 0..MaxDays }
    /\ alive = TRUE
    /\ fetch_cache = Absent
    /\ existing = <<>> /\ element \in StalePool
    /\ dt_arg = 0 /\ returned = "none"
    /\ in_flight = 0 /\ next_run = 0

\* "Skip programs older than 1 day" in EPGCacher.merge_missing_programmes
IsStale ==
    /\ pc = "args"
    /\ returned' = IF is_stale(AsProgramme(element), now) THEN "true" ELSE "false"
    /\ pc' = "is_stale"
    /\ UNCHANGED <<now, cacher_vars, alive, fetch_cache, existing, element, dt_arg,
                   in_flight, next_run,
                   worker>>

\* is_old_programme(programme) of functions.py and fetch_epg.py
IsOldProgramme ==
    /\ pc = "args"
    /\ returned' = IF is_old_programme(element, now) THEN "true" ELSE "false"
    /\ pc' = "is_old_programme"
    /\ UNCHANGED <<now, cacher_vars, alive, fetch_cache, existing, element, dt_arg,
                   in_flight, next_run,
                   worker>>

NextStale == IsStale \/ IsOldProgramme

SpecStale == InitStale /\ [][NextStale]_vars

-----------------------------------------------------------------------------
(* C21 *)

\* C21: the staleness filter fails open: a programme whose inspected time
\* field (start in EPGCacher.merge_missing_programmes, stop in
\* is_old_programme) is missing or does not parse is not stale, whatever the
\* current time.
C21_UnparsedIsNeverStale ==
    /\ (pc = "is_stale" /\ ~parse_datetime(get(element, "start", EmptyStr)).ok)
           => returned = "false"
    /\ (pc = "is_old_programme" /\ ~get_datetime(get(element, "stop", EmptyStr)).ok)
           => returned = "false"

\* both tests are applied, four days on, to a programme without the field
\* they read, and to one that is stale by then
C21_Witness ==
    /\ now = Now0 + MaxDays * SecondsPerDay
    /\ \/ pc = "is_stale" /\ element = JunkStart /\ returned = "false"
       \/ pc = "is_old_programme" /\ element = Open /\ returned = "false"

-----------------------------------------------------------------------------
(* C22 *)

\* C22 as claimed: channels are merged before programmes are scanned, so
\* after the merge every programme carried forward from the old document
\* whose channel a Channel element of the old document declares refers to a
\* channel id that is among the merged document's Channel elements.
C22_CarriedProgrammeHasItsChannel ==
    pc = "programmes" =>
        \A p \in SeqToSet(appended) :
            p.channel \in Ids(old_root) => p.channel \in Ids(new_root)

\* C22 amended: the same, for the programmes whose channel attribute is not
\* empty.
C22_CarriedProgrammeHasItsNamedChannel ==
    pc = "programmes" =>
        \A p \in SeqToSet(appended) :
            (p.channel # NoId /\ p.channel \in Ids(old_root))
                => p.channel \in Ids(new_root)

\* C22 witness: the new document was empty; a programme was carried forward
\* whose channel only the old document declared, and that channel is in the
\* merged document.
C22_Witness ==
    /\ pc = "programmes"
    /\ Len(old_root) = MaxElements /\ new_root = old_root
    /\ \E p \in SeqToSet(appended) :
          /\ p.channel # NoId
          /\ p.channel \in Ids(old_root)
          /\ p.channel \in Ids(new_root)

-----------------------------------------------------------------------------
(* C23 *)

\* C23: after the process was killed between the backup copy and the end of
\* save_epg_file, the next run of update_epg tolerates the files it finds: it
\* does not end by an exception, and when the fetch succeeds (the feed
\* answers with a document that parses, and no file operation of this run
\* fails) it writes a parseable epg_unescaped.xml.
C23_RunAfterKillTolerates ==
    [][ (RunStep /\ journal.outcome = "killed")
        => /\ journal'.outcome # "error"
           /\ (/\ journal'.fetch.fetched /\ journal'.fetch.well_formed
               /\ journal'.fault = <<"none", "ok">>)
                  => (/\ journal'.outcome = "saved"
                      /\ epg_file'.exists /\ epg_file'.well_formed) ]_vars

-----------------------------------------------------------------------------
(* save_escaped_epg_file applied to a saved document *)

\* how many elements the saved document holds
MaxEscaped == 2

\* channel ids as the feed writes them: with capitals, with a diacritic, with
\* a space, with a percent escape, and plain
RawIds ==
    { <<"C", "T", "1">>, <<"c", "t", "1">>, <<"C-caron", "T", "1">>,
      <<"c", "t", " ", "1">>, <<"%", "4", "1">>, <<"a">>, <<"c", "t", "2">> }

EscapedPool ==
    { Channel(i) : i \in RawIds }
    \cup { Programme(i, TzStr(Now0 + 5 * Hour, 0), TzStr(Now0 + 6 * Hour, 0), <<>>) :
             i \in RawIds }

\* save_epg_file has written epg_unescaped.xml
InitEscaped ==
    /\ pc = "saved"
    /\ now = Now0
    /\ epg_file \in { XmlFile(d) : d \in SeqsUpTo(EscapedPool, MaxEscaped) }
    /\ epg_old_file = Absent /\ epg_file_escaped = Absent
    /\ journal = NoRun
    /\ config = [skip_cron |-> EveryMinute, epg2_url |-> FALSE]
    /\ mapping_rows = <<>> /\ channel_mapping = <<>>
    /\ new_root = epg_file.root /\ old_root = <<>> /\ appended = <<>>
    /\ raised = FALSE /\ merged_count = 0
    /\ epg2_root = <<>> /\ image_map = <<>>
    /\ NoOther

\* self.save_escaped_epg_file()
SaveEscapedEpgFile ==
    /\ pc = "saved"
    /\ epg_file_escaped' = save_escaped_epg_file(epg_file, epg_file_escaped, "ok").file
    /\ pc' = "escaped"
    /\ UNCHANGED <<now, new_root, old_root, raised, merged_count, appended,
                   mapping_rows, channel_mapping, epg2_root, image_map, epg_file,
                   epg_old_file, journal, config, other_vars>>

NextEscaped == SaveEscapedEpgFile

SpecEscaped == InitEscaped /\ [][NextEscaped]_vars

-----------------------------------------------------------------------------
(* C24 *)

\* the ids of the Channel elements of the document are pairwise distinct
DistinctIds(root) ==
    \A i, j \in DOMAIN root :
        (i # j /\ root[i].tag = "channel" /\ root[j].tag = "channel")
            => root[i].id # root[j].id

\* C24: if the ids of the Channel elements of epg_unescaped.xml are pairwise
\* distinct, so are those of epg.xml after save_escaped_epg_file, and two
\* programmes refer to the same channel in epg.xml only if they did in
\* epg_unescaped.xml.
C24_EscapedIdsStayDistinct ==
    (pc = "escaped" /\ DistinctIds(epg_file.root))
        => /\ DistinctIds(epg_file_escaped.root)
           /\ \A i, j \in DOMAIN epg_file.root :
                 (/\ epg_file.root[i].tag = "programme"
                  /\ epg_file.root[j].tag = "programme"
                  /\ epg_file_escaped.root[i].channel = epg_file_escaped.root[j].channel)
                     => epg_file.root[i].channel = epg_file.root[j].channel

-----------------------------------------------------------------------------
(* C25 *)

\* the channel is mapped to a non-empty secondary id, and the start of the
\* programme does not parse or no image-index entry of that id lies within
\* the tolerance of it
NothingToAttach(p) ==
    \E j \in DOMAIN channel_mapping :
        /\ channel_mapping[j][1] = p.channel /\ channel_mapping[j][2] # <<>>
        /\ \/ ~parse_datetime(p.start).ok
           \/ \A k \in DOMAIN image_map : ~EntryWithin(k, channel_mapping[j][2], p)

-----------------------------------------------------------------------------
(* C26 *)

\* a step that is a call of merge_missing_channels or merge_missing_programmes
MergeStep ==
    \/ pc = "parsed" /\ pc' = "channels"
    \/ pc = "channels" /\ pc' = "programmes"

\* C26: the merge only appends: merge_missing_channels and
\* merge_missing_programmes leave every element the new document held before
\* the call where it was and as it was, and what they add comes after.
C26_MergeOnlyAppends ==
    [][ MergeStep =>
          /\ Len(new_root') >= Len(new_root)
          /\ SubSeq(new_root', 1, Len(new_root)) = new_root
          /\ new_root' = new_root \o appended' ]_vars

\* C26 witness: both calls appended to a new document that held a channel
\* and a programme, which are still its first two elements.
C26_Witness ==
    /\ pc = "programmes"
    /\ Len(appended) >= 1 /\ Len(new_root) >= 3
    /\ new_root[1].tag = "channel" /\ new_root[2].tag = "programme"
    /\ \E i \in DOMAIN old_root : old_root[i] = new_root[3]

-----------------------------------------------------------------------------
(* C27 *)

\* the run got as far as step 4
ReachedStep4(outcome) == outcome \in {"saved", "save_failed", "error"}

-----------------------------------------------------------------------------
(* update_epg called at the seconds around a fire time of SKIP_CRON *)

\* how many seconds before and after 02:00 the call is made
MaxSkew == 62

Daily2 == Cron(SecondsPerDay, 2 * Hour)

\* the process is started, with or without an output file of an earlier
\* life, so that its initial update_epg falls near 02:00
InitCron ==
    /\ pc = "due"
    /\ now \in { Now0 + 2 * Hour + d : d \in -MaxSkew..MaxSkew }
    /\ config \in { [skip_cron |-> c, epg2_url |-> FALSE] : c \in {EveryMinute, Daily2} }
    /\ mapping_rows = <<>> /\ channel_mapping = <<>>
    /\ epg_file \in {Absent, XmlFile(<<Channel(Id5), Upcoming>>)}
    /\ epg_old_file = Absent /\ epg_file_escaped = Absent
    /\ journal = NoRun
    /\ new_root = <<>> /\ old_root = <<>> /\ appended = <<>>
    /\ raised = FALSE /\ merged_count = 0
    /\ epg2_root = <<>> /\ image_map = <<>>
    /\ NoOther

NextCron == UpdateEpg

SpecCron == InitCron /\ [][NextCron]_vars

-----------------------------------------------------------------------------
(* C28 *)

\* the expression fires at f
Fires(cron_expr, f) == (f - cron_expr.phase) % cron_expr.period = 0

\* the run did nothing: no file changed and nothing was fetched
Skipped ==
    /\ journal'.outcome = "skipped"
    /\ epg_file' = epg_file /\ epg_old_file' = epg_old_file
    /\ epg_file_escaped' = epg_file_escaped

-----------------------------------------------------------------------------
(* web_ui.py: add_mapping and delete_mapping *)

\* requests a worker handles before gunicorn is stopped
MaxRequests == 1

\* ChannelMappingManager.load_mappings: every data row of the file, stripped
RECURSIVE load_mappings(_)
load_mappings(rows) ==
    IF rows = <<>> THEN <<>>
    ELSE <<[epg1_channel |-> strip(Head(rows)[1]),
            epg2_channel |-> strip(Head(rows)[2])]>> \o load_mappings(Tail(rows))

\* the rows ChannelMappingManager.save_mappings writes under the header
RECURSIVE save_mappings(_)
save_mappings(mappings) ==
    IF mappings = <<>> THEN <<>>
    ELSE << <<strip(Head(mappings).epg1_channel), strip(Head(mappings).epg2_channel)>> >>
         \o save_mappings(Tail(mappings))

\* the mappings whose primary channel is epg1_channel
with_epg1(mappings, epg1_channel) ==
    SelectSeq(mappings, LAMBDA mapping : mapping.epg1_channel = epg1_channel)

\* [m for m in mappings if m['epg1_channel'] != epg1_channel]
without_epg1(mappings, epg1_channel) ==
    SelectSeq(mappings, LAMBDA mapping : mapping.epg1_channel # epg1_channel)

\* the variables web_ui.py neither reads nor writes
beside_web_ui == <<pc, now, new_root, old_root, raised, merged_count, appended,
                  channel_mapping, epg2_root, image_map, epg_file, epg_old_file,
                  epg_file_escaped, journal, config, alive, fetch_cache, existing,
                  element, dt_arg, returned, in_flight, next_run>>

\* the ids a form can carry
FormIds == {Id5, Id7, <<" ">>}

\* a worker takes POST /add_mapping or POST /delete_mapping and reads the
\* form; an empty primary id is answered at once
Receive(w) ==
    /\ worker[w].pc = "idle"
    /\ worker[w].served < MaxRequests
    /\ \E route \in {"add_mapping", "delete_mapping"}, epg1 \in FormIds :
          LET epg1_channel == strip(epg1)
          IN  worker' = [worker EXCEPT ![w] =
                 [pc |-> IF epg1_channel = <<>> THEN "idle" ELSE "load",
                  route |-> route,
                  epg1_channel |-> epg1_channel,
                  epg2_channel |-> IF route = "add_mapping" THEN SecN ELSE <<>>,
                  mappings |-> <<>>,
                  flash |-> IF epg1_channel = <<>> THEN "error" ELSE "none",
                  served |-> IF epg1_channel = <<>> THEN @.served + 1 ELSE @.served]]
    /\ UNCHANGED <<mapping_rows, beside_web_ui>>

\* mapping_manager.load_mappings() and the change made to the list in memory;
\* a request that has nothing to change is answered with a warning
LoadMappings(w) ==
    /\ worker[w].pc = "load"
    /\ LET me == worker[w]
           mappings == load_mappings(mapping_rows)
           changed == IF me.route = "add_mapping"
                      THEN Append(mappings, [epg1_channel |-> me.epg1_channel,
                                             epg2_channel |-> me.epg2_channel])
                      ELSE without_epg1(mappings, me.epg1_channel)
           nothing == IF me.route = "add_mapping"
                      THEN with_epg1(mappings, me.epg1_channel) # <<>>
                      ELSE Len(changed) = Len(mappings)
       IN  worker' = [worker EXCEPT ![w] =
              IF nothing
              THEN [@ EXCEPT !.pc = "idle", !.mappings = mappings,
                             !.flash = "warning", !.served = @ + 1]
              ELSE [@ EXCEPT !.pc = "save", !.mappings = changed]]
    /\ UNCHANGED <<mapping_rows, beside_web_ui>>

\* save_mappings: open(self.csv_file, 'w') empties the file
OpenCsv(w) ==
    /\ worker[w].pc = "save"
    /\ mapping_rows' = <<>>
    /\ worker' = [worker EXCEPT ![w].pc = "write"]
    /\ UNCHANGED beside_web_ui

\* save_mappings: the rows are written and the file is closed; the request is
\* answered with success
WriteCsv(w) ==
    /\ worker[w].pc = "write"
    /\ mapping_rows' = save_mappings(worker[w].mappings)
    /\ worker' = [worker EXCEPT ![w] =
          [@ EXCEPT !.pc = "idle", !.flash = "success", !.served = @ + 1]]
    /\ UNCHANGED beside_web_ui

\* channel_mapping.csv when gunicorn starts
StoredRows == { <<>>, << <<Id5, SecN>> >>, << <<Id7, SecN>> >>,
                << <<Id5, SecN>>, <<Id7, SecN>> >> }

InitWorkers ==
    /\ pc = "none" /\ now = Now0
    /\ config = [skip_cron |-> EveryMinute, epg2_url |-> FALSE]
    /\ mapping_rows \in StoredRows
    /\ channel_mapping = <<>>
    /\ epg_file = Absent /\ epg_old_file = Absent /\ epg_file_escaped = Absent
    /\ journal = NoRun
    /\ new_root = <<>> /\ old_root = <<>> /\ appended = <<>>
    /\ raised = FALSE /\ merged_count = 0
    /\ epg2_root = <<>> /\ image_map = <<>>
    /\ NoOther

NextWorkers ==
    \E w \in Workers : Receive(w) \/ LoadMappings(w) \/ OpenCsv(w) \/ WriteCsv(w)

SpecWorkers == InitWorkers /\ [][NextWorkers]_vars

-----------------------------------------------------------------------------
(* epg_cacher.py running while the mapping is edited in the web UI *)

\* both channels with an upcoming programme each, as the primary feed has them
BothChannels == <<Channel(Id5), Upcoming, Channel(Id7), Other>>

\* one call of update_epg that reloads the mapping file first
UpdateEpgReloading ==
    /\ pc = "due"
    /\ \E fetch \in {Xml(BothChannels)}, epg2 \in Epg2Results \ {FetchFailed} :
          \E r \in {update_epg(now, config, load_channel_mapping(mapping_rows),
                              epg_file, epg_old_file, epg_file_escaped, fetch, epg2,
                              <<"none", "ok">>)} :
              /\ epg_file' = r.epg_file
              /\ epg_old_file' = r.epg_old_file
              /\ epg_file_escaped' = r.epg_file_escaped
              /\ new_root' = r.new_root
              /\ old_root' = r.old_root
              /\ appended' = r.appended
              /\ raised' = r.raised
              /\ merged_count' = r.merged_count
              /\ epg2_root' = r.epg2_root
              /\ image_map' = r.image_map
              /\ journal' = [outcome |-> r.outcome, fetch |-> fetch,
                             fault |-> <<"none", "ok">>]
    /\ channel_mapping' = load_channel_mapping(mapping_rows)
    /\ pc' = "sleeping"
    /\ UNCHANGED <<now, mapping_rows, config, other_vars>>

\* one call of update_epg, from the scheduler, in which both feeds answer and
\* no file operation fails
UpdateEpgOnline ==
    /\ pc = "due"
    /\ \E fetch \in {Xml(BothChannels)}, epg2 \in Epg2Results \ {FetchFailed} :
          \E r \in {update_epg(now, config, channel_mapping, epg_file, epg_old_file,
                              epg_file_escaped, fetch, epg2, <<"none", "ok">>)} :
              /\ epg_file' = r.epg_file
              /\ epg_old_file' = r.epg_old_file
              /\ epg_file_escaped' = r.epg_file_escaped
              /\ new_root' = r.new_root
              /\ old_root' = r.old_root
              /\ appended' = r.appended
              /\ raised' = r.raised
              /\ merged_count' = r.merged_count
              /\ epg2_root' = r.epg2_root
              /\ image_map' = r.image_map
              /\ journal' = [outcome |-> r.outcome, fetch |-> fetch,
                             fault |-> <<"none", "ok">>]
    /\ pc' = "sleeping"
    /\ UNCHANGED <<now, mapping_rows, channel_mapping, config, other_vars>>

\* EPGCacher() with a mapping file that maps channel 5, channel 7, both or
\* none, then run_scheduler(); the web UI is up
InitMapping ==
    /\ pc = "due"
    /\ now = Now0
    /\ config = [skip_cron |-> Cron(SecondsPerDay, 2 * Hour), epg2_url |-> TRUE]
    /\ mapping_rows \in StoredRows
    /\ channel_mapping = load_channel_mapping(mapping_rows)
    /\ epg_file = Absent /\ epg_old_file = Absent /\ epg_file_escaped = Absent
    /\ journal = NoRun
    /\ new_root = <<>> /\ old_root = <<>> /\ appended = <<>>
    /\ raised = FALSE /\ merged_count = 0
    /\ epg2_root = <<>> /\ image_map = <<>>
    /\ NoOther

NextMapping ==
    \/ UpdateEpgOnline
    \/ Sleep
    \/ \E w \in Workers : Receive(w) \/ LoadMappings(w) \/ OpenCsv(w) \/ WriteCsv(w)

SpecMapping == InitMapping /\ [][NextMapping]_vars

-----------------------------------------------------------------------------
(* C29 *)

\* the channels that have a programme with an image in the document
Enriched(root) ==
    { e.channel : e \in { p \in SeqToSet(findall(root, "programme")) : p.icons # <<>> } }

\* the primary channel ids of a loaded mapping
MappedIds(mapping) == { mapping[i][1] : i \in DOMAIN mapping }

\* C29: the mapping used for image attachment is the one loaded when the
\* EPGCacher was constructed: no step changes it, whatever add_mapping and
\* delete_mapping write to channel_mapping.csv, and every run that saves a
\* document enriches exactly the channels that mapping names.
C29_MappingFixedAtConstruction ==
    [][ /\ channel_mapping' = channel_mapping
        /\ (RunStep /\ journal'.outcome = "saved")
              => Enriched(new_root') = MappedIds(channel_mapping) ]_vars

\* C29 witness: channel 5 was mapped at construction and its row has been
\* deleted in the web UI; the run of an hour later attached images to
\* channel 5 all the same.
C29_Witness ==
    /\ pc = "sleeping" /\ now = Now0 + Hour /\ journal.outcome = "saved"
    /\ worker[1].route = "delete_mapping" /\ worker[1].flash = "success"
    /\ mapping_rows = <<>>
    /\ Enriched(new_root) = {Id5}

-----------------------------------------------------------------------------
(* C30 *)

\* the primary channel ids of the stored rows
StoredIds == { strip(mapping_rows[i][1]) : i \in DOMAIN mapping_rows }

\* the stored mapping shows the edit the worker made
Reflects(w) ==
    IF worker[w].route = "add_mapping"
    THEN worker[w].epg1_channel \in StoredIds
    ELSE worker[w].epg1_channel \notin StoredIds

\* both workers have answered one request each with success, for different
\* primary channel ids
BothSucceeded ==
    /\ \A w \in Workers :
          /\ worker[w].pc = "idle" /\ worker[w].served = 1
          /\ worker[w].flash = "success"
    /\ worker[1].epg1_channel # worker[2].epg1_channel

\* C30: when the two workers handle requests for different primary channel
\* ids and both report success, the stored mapping reflects both edits, and
\* no two stored rows ever share a primary channel id.
C30_NoEditIsLost ==
    /\ BothSucceeded => \A w \in Workers : Reflects(w)
    /\ \A i, j \in DOMAIN mapping_rows :
          strip(mapping_rows[i][1]) = strip(mapping_rows[j][1]) => i = j

=============================================================================
